---- MODULE Spec2Model ----
(***************************************************************************)
(* Coordination layer of the report service:                               *)
(*   - the Redis-backed cache-aside reads of TranscriptService and         *)
(*     VideoDetailService (external/youtube), with the transcript lock;    *)
(*   - the completion listener ReportUpdateSubscriber (redis_subscriber)   *)
(*     with the dispatcher create_report and the task rows it reads.       *)
(*   - the retry loop of ReportService.analyze_viewer_retention and the    *)
(*     request handlers create_report / create_report_v2, step by step.    *)
(* SpecCache is the state machine of the cache callers, SpecListener the   *)
(* one of the dispatcher, the workers and the listener; SpecTTL, SpecWait  *)
(* and SpecStampede run the cache callers against the clock, under         *)
(* fairness and as a larger stampede; SpecRetry and SpecDispatch are the   *)
(* retry loop and the request handlers.  SpecSettle is create_report with  *)
(* the workers that settle the task row; SpecOneListener and SpecConsumers *)
(* are the listener process step by step, alone and as two processes on    *)
(* the channel; SpecLock is the holder path with the TTL of the lock key;  *)
(* SpecSingleton is RedisClient.get_instance and close step by step,       *)
(* SpecEnvelope one notification from RedisService.publish to the filter   *)
(* of handle_message as JSON text, SpecStart one start of the listener     *)
(* against a server that may be down or fail a command.                    *)
(***************************************************************************)
EXTENDS Integers, Sequences, FiniteSets, TLC

(* ------------------------------ bounds -------------------------------- *)
\* number of concurrent tasks calling the cache-aside functions
NCallers == 2
\* number of Redis commands that may raise in one behaviour
MaxStoreErrors == 1
\* number of times the lock key may reach its TTL in one behaviour
MaxLockExpiries == 1

\* reports the dispatcher creates in one behaviour
NReports == 1
\* messages published on the channel "complete" in one behaviour
MaxPublished == 2
\* messages waiting in the listener's subscription
MaxQueue == 1
\* rounds of the waiting loop; `for attempt in range(30)` in the source,
\* scaled down: every round is the same sleep and read
PollAttempts == 2
\* concurrent callers of get_structured_transcript in the stampede runs
NStampede == 3
\* times the clock is moved on in one behaviour
MaxTicks == 2
\* concurrent requests to create_report / create_report_v2
NRequests == 2
\* concurrent calls of RedisClient.get_instance
NGetters == 4

\* listener processes subscribed to the channel "complete": the two
\* instances of the open requirement on concurrent consumers
NListeners == 2

Callers == 1..NCallers
StampedeCallers == 1..NStampede
AllCallers == Callers \cup StampedeCallers

None == "None"

(* --------------------------- values and JSON --------------------------- *)
\* What the upstream fetches hand back.  _fetch_and_structure gives the list
\* of snippets, or [] after fetch_transcript swallowed an exception;
\* _fetch_video_details gives the detail dict, or {} for "not found".
TranscriptList == "transcript-list"
EmptyList == "empty-list"
DetailDict == "detail-dict"
EmptyDict == "empty-dict"
Raised == "raised"

\* json.dumps(structured): the text stored in Redis
dumps(v) ==
    CASE v = EmptyList -> "[]"
      [] v = EmptyDict -> "{}"
      [] v = TranscriptList -> "[{text,start_time,end_time}]"
      [] OTHER -> "{title,...}"

\* json.loads(cached)
loads(s) ==
    CASE s = "[]" -> EmptyList
      [] s = "{}" -> EmptyDict
      [] s = "[{text,start_time,end_time}]" -> TranscriptList
      [] OTHER -> DetailDict

\* `if cached:` on the str (decode_responses=True) or None that GET returns
Truthy(s) == s # None /\ s # ""

(* ------------------------------- state --------------------------------- *)
VARIABLES
    reachable,    \* whether the Redis server answers the ping of get_instance
    faulty,       \* whether the Redis server fails commands in this behaviour
    instance,     \* RedisClient._instance
    cache,        \* Redis: [transcript |-> text or None, video_detail |-> ...]
    lock,         \* Redis: value of transcript:lock:<id>, or None
    call,         \* per caller: the coroutine's locals and position
    storeErrors,  \* Redis commands that raised so far
    lockExpiries, \* times the lock key reached its 30 s TTL so far
    cachedFailed, \* history: the text at transcript:<id> was written from the
                  \* result of a fetch_transcript that swallowed an exception
    now,          \* the clock of the Redis server, in seconds
    expireAt,     \* Redis: per cache key, the instant its TTL runs out
    lockExpireAt, \* Redis: the instant the TTL of the lock key runs out
    written,      \* history: per cache key, the instant of its last SETEX
                  \* (-1: never written)
    ticks         \* times the clock has been moved on so far

clockVars == <<now, expireAt, lockExpireAt, written, ticks>>

cacheVars == <<reachable, faulty, instance, cache, lock, call, storeErrors,
               lockExpiries, cachedFailed, clockVars>>

VARIABLES
    tasks,          \* the task table: report id -> row (exists = FALSE: no row)
    nextReport,     \* the id the next saved report gets
    kafka,          \* the log of the overview / analysis topics: messages sent
    channel,        \* messages of channel "complete" the subscription holds
    published,      \* messages published on "complete" so far
    listener,       \* position of ReportUpdateSubscriber.start
    summarizeCalls, \* report id -> invocations of summarize_update_changes
                    \* (0, 1, or 2 for "more than one")
    accepted,       \* history: report id -> the steps whose success
                    \* notification the listener took for the report's task
    last,           \* what the last handle_message was given and did
    terminal        \* history: the <<report, step>> seen COMPLETED or FAILED

listenerVars == <<tasks, nextReport, kafka, channel, published, listener,
                  summarizeCalls, accepted, last, terminal>>

VARIABLES
    retry           \* the locals and position of one analyze_viewer_retention

retryVars == <<retry>>

VARIABLES
    request,        \* per request: the locals and position of the handler
    reportRows,     \* the report table: ids of the saved reports
    taskRows,       \* the task table: the saved rows
    topics          \* the sends to the Kafka topics, in the order they were made

dispatchVars == <<request, reportRows, taskRows, topics>>

VARIABLES
    consumer,       \* per listener process: the position and the locals of its
                    \* ReportUpdateSubscriber.start and handle_message, the
                    \* messages its subscription holds
    update_summary  \* the report table: report id -> update_summary, or None

consumerVars == <<consumer, update_summary>>

VARIABLES
    RedisClient,    \* the class attributes _instance (0: None, k: the k-th
                    \* redis.Redis constructed) and _lock (0: free, g: held by
                    \* the get_instance call g)
    clients,        \* history: clients constructed, clients whose ping succeeded
    getter,         \* per get_instance call: its position and what it returned
    closer          \* position of RedisClient.close

singletonVars == <<RedisClient, clients, getter, closer>>

VARIABLES
    wire            \* one notification on its way: what RedisService.publish
                    \* was called with, what it sent, what the listener made
                    \* of it

wireVars == <<wire>>

programVars == <<cacheVars, listenerVars, retryVars, dispatchVars, consumerVars>>

otherVars == <<listenerVars, retryVars, dispatchVars, consumerVars, singletonVars, wireVars>>

vars == <<programVars, singletonVars, wireVars>>

(* ------------------------- RedisClient (singleton) --------------------- *)
\* mutant: the new client is kept whatever its ping did
get_instance_Unpinged(inst, reach) == IF inst = None THEN "redis" ELSE inst

\* RedisClient.get_instance as one step, for a call that does not run while
\* another call's ping is awaited: an existing instance is returned as it
\* is; a new one is kept only when its ping succeeds, else _instance is None
\* again.  The calls step by step, overlapping, are G_Enter .. G_Ping below.
get_instance(inst, reach) ==
    IF inst = None THEN (IF reach THEN "redis" ELSE None) ELSE inst

\* the calls of get_instance, as coroutines of one event loop: a call runs
\* from one await that suspends it to the next
Getters == 1..NGetters

\* None, as the value of _instance and as the value a call returns
NoClient == 0

IdleGetter == [pc |-> "idle", made |-> NoClient, ret |-> NoClient]

\* line 49: return cls._instance
Got(r, inst) == [r EXCEPT !.pc = "done", !.ret = inst]

\* lines 25-44 with the lock held: `if cls._instance is None:` assigns the
\* new redis.Redis to cls._instance and awaits its ping; otherwise the lock
\* is left again and line 49 returns
Locked(g) ==
    IF RedisClient._instance = NoClient
    THEN /\ RedisClient' = [_instance |-> clients.built + 1, _lock |-> g]
         /\ clients' = [clients EXCEPT !.built = @ + 1]
         /\ getter' = [getter EXCEPT ![g] =
                          [@ EXCEPT !.pc = "ping", !.made = clients.built + 1]]
    ELSE /\ getter' = [getter EXCEPT ![g] = Got(@, RedisClient._instance)]
         /\ UNCHANGED <<RedisClient, clients>>

\* lines 23-24: `if cls._instance is None:` and `async with cls._lock:`, which
\* suspends the call when the lock is held
G_Enter(g) ==
    /\ getter[g].pc = "idle"
    /\ IF RedisClient._instance # NoClient
       THEN /\ getter' = [getter EXCEPT ![g] = Got(@, RedisClient._instance)]
            /\ UNCHANGED <<RedisClient, clients>>
       ELSE IF RedisClient._lock # 0
            THEN /\ getter' = [getter EXCEPT ![g] = [@ EXCEPT !.pc = "wait"]]
                 /\ UNCHANGED <<RedisClient, clients>>
            ELSE Locked(g)
    /\ UNCHANGED <<closer, programVars, wireVars>>

\* line 24: the lock has been released and this waiting call gets it
G_Acquired(g) ==
    /\ getter[g].pc = "wait"
    /\ RedisClient._lock = 0
    /\ Locked(g)
    /\ UNCHANGED <<closer, programVars, wireVars>>

\* lines 44-49: the ping has ended.  Its exception is caught at line 46 and
\* line 47 resets cls._instance; the lock is left and line 49 returns what
\* cls._instance holds then
G_Ping(g) ==
    /\ getter[g].pc = "ping"
    /\ IF reachable
       THEN /\ RedisClient' = [RedisClient EXCEPT !._lock = 0]
            /\ clients' = [clients EXCEPT !.pinged = @ \cup {getter[g].made}]
            /\ getter' = [getter EXCEPT ![g] = Got(@, RedisClient._instance)]
       ELSE /\ RedisClient' = [_instance |-> NoClient, _lock |-> 0]
            /\ getter' = [getter EXCEPT ![g] = Got(@, NoClient)]
            /\ UNCHANGED clients
    /\ UNCHANGED <<closer, programVars, wireVars>>

\* RedisClient.close, lines 54-55: `if cls._instance: await cls._instance.close()`
K_Start ==
    /\ closer = "idle"
    /\ closer' = IF RedisClient._instance # NoClient THEN "closing" ELSE "done"
    /\ UNCHANGED <<RedisClient, clients, getter, programVars, wireVars>>

\* line 56: cls._instance = None
K_End ==
    /\ closer = "closing"
    /\ closer' = "done"
    /\ RedisClient' = [RedisClient EXCEPT !._instance = NoClient]
    /\ UNCHANGED <<clients, getter, programVars, wireVars>>

(* ----------------------------- the callers ----------------------------- *)
IdleCall ==
    [op |-> "none", pc |-> "idle", client |-> None, attempt |-> 0,
     structured |-> None, failed |-> FALSE, pending |-> "none",
     result |-> None, fetches |-> 0, redisOps |-> 0, lastFetch |-> None,
     holderRaised |-> FALSE, timedOut |-> FALSE, storeErr |-> FALSE,
     hit |-> "none", readText |-> None, polls |-> 0, slept |-> 0,
     deadline |-> 0]

\* one more Redis command issued by caller c
Op(r) == [r EXCEPT !.redisOps = @ + 1]

\* the coroutine returns v (or raises, v = Raised)
Return(r, v) == [r EXCEPT !.pc = "done", !.result = v]

\* mutant: no handler around the Redis commands
StoreError_Propagated(r, handler) ==
    Return([r EXCEPT !.storeErr = TRUE], Raised)

\* a Redis command of the call raised: control goes to the `except Exception`
\* around it (or, from the cache write, through the finally first)
StoreError(r, handler) == [r EXCEPT !.storeErr = TRUE, !.pc = handler]

\* history: the text a GET replied, when it replied one (which: the first
\* read or a read of the waiting loop)
Recorded(r, cached, which) ==
    IF cached # None THEN [r EXCEPT !.hit = which, !.readText = cached] ELSE r

\* lines 139-142: one more `await asyncio.sleep(1)` and the GET after it
Polled(r) == [r EXCEPT !.polls = @ + 1, !.slept = @ + 1]

\* mutant: a TTL of one day
ttl_OneDay == 24 * 3600

\* line 121: ttl = 30 * 24 * 3600
ttl == 30 * 24 * 3600

\* the 300 of setex(cache_key, 300, ..) in get_video_details
DetailTTL == 300

\* the 30 of set(lock_key, "1", nx=True, ex=30)
LockTTL == 30

\* mutant: the `is None` test left out
AfterClient_NoNoneTest(client) == "get"

\* `if redis_client is None: return await self._fetch_and_structure_async(..)`
AfterClient(client) == IF client = None THEN "direct" ELSE "get"

\* the outcomes of one upstream transcript fetch: <<value, failed>>.
\* fetch_transcript catches every Exception and returns [], which
\* _fetch_and_structure hands on as []; the executor call itself may raise.
TranscriptOutcomes ==
    {<<TranscriptList, FALSE>>, <<EmptyList, TRUE>>, <<Raised, TRUE>>}

\* the outcomes of one _fetch_video_details: the dict, {} when the video is
\* not found, or the re-raised HttpError / Exception
DetailOutcomes ==
    {<<DetailDict, FALSE>>, <<EmptyDict, TRUE>>, <<Raised, TRUE>>}

\* caller c has invoked the upstream fetch once more, with outcome o
Fetched(r, o) ==
    [r EXCEPT !.fetches = @ + 1, !.lastFetch = o[1]]

\* get_structured_transcript, lines 86-95
T_Start(c) ==
    /\ call[c].pc = "idle"
    /\ instance' = get_instance(instance, reachable)
    /\ call' = [call EXCEPT ![c] =
                  [@ EXCEPT !.op = "transcript", !.client = instance',
                            !.pc = AfterClient(instance')]]
    /\ UNCHANGED <<reachable, faulty, cache, lock, storeErrors, lockExpiries, cachedFailed, clockVars, otherVars>>

\* mutant: the cached text is not looked at
AfterRead_NoHit(r, cached) == [r EXCEPT !.pc = "lock"]

\* what the first read decides, lines 99-102
AfterRead(r, cached) ==
    IF Truthy(cached) THEN Return(r, loads(cached)) ELSE [r EXCEPT !.pc = "lock"]

\* lines 98-106: cached = await redis_client.get(cache_key)
T_Get(c) ==
    /\ call[c].pc = "get"
    /\ \/ /\ call' = [call EXCEPT ![c] =
                        AfterRead(Recorded(Op(@), cache.transcript, "first"),
                                  cache.transcript)]
          /\ UNCHANGED storeErrors
       \/ /\ faulty /\ storeErrors < MaxStoreErrors
          /\ storeErrors' = storeErrors + 1
          /\ call' = [call EXCEPT ![c] = StoreError(Op(@), "fallback")]
    /\ UNCHANGED <<reachable, faulty, instance, cache, lock, lockExpiries, cachedFailed, clockVars, otherVars>>

\* SET lock_key "1" NX EX 30: the reply (True or None) and the key afterwards
SetNX(l) == IF l = None THEN <<TRUE, "1">> ELSE <<FALSE, l>>

\* lines 109-112, 135-139: acquired = await redis_client.set(lock_key, "1", nx=True, ex=30)
T_Lock(c) ==
    /\ call[c].pc = "lock"
    /\ \/ /\ lock' = SetNX(lock)[2]
          /\ lockExpireAt' = IF SetNX(lock)[1] THEN now + LockTTL ELSE lockExpireAt
          /\ call' = [call EXCEPT ![c] =
                        [Op(@) EXCEPT !.pc = IF SetNX(lock)[1] THEN "hfetch" ELSE "poll",
                                      !.deadline = IF SetNX(lock)[1]
                                                   THEN now + LockTTL ELSE @]]
          /\ UNCHANGED storeErrors
       \/ /\ faulty /\ storeErrors < MaxStoreErrors
          /\ storeErrors' = storeErrors + 1
          /\ call' = [call EXCEPT ![c] = StoreError(Op(@), "except")]
          /\ UNCHANGED <<lock, lockExpireAt>>
    /\ UNCHANGED <<reachable, faulty, instance, cache, lockExpiries, cachedFailed,
                   now, expireAt, written, ticks, otherVars>>

\* lines 116-118: the holder's fetch; an exception goes to the finally
AfterHolderFetch(r, o) ==
    IF o[1] = Raised
    THEN [Fetched(r, o) EXCEPT !.pending = "raise", !.holderRaised = TRUE,
                               !.pc = "release"]
    ELSE [Fetched(r, o) EXCEPT !.structured = o[1], !.failed = o[2],
                               !.pc = "setex"]

T_HolderFetch(c) ==
    /\ call[c].pc = "hfetch"
    /\ \E o \in TranscriptOutcomes :
          call' = [call EXCEPT ![c] = AfterHolderFetch(@, o)]
    /\ UNCHANGED <<reachable, faulty, instance, cache, lock, storeErrors, lockExpiries, cachedFailed, clockVars, otherVars>>

\* lines 121-129: setex(cache_key, ttl, json.dumps(structured)); return structured
T_Setex(c) ==
    /\ call[c].pc = "setex"
    /\ \/ /\ cache' = [cache EXCEPT !.transcript = dumps(call[c].structured)]
          /\ expireAt' = [expireAt EXCEPT !.transcript = now + ttl]
          /\ written' = [written EXCEPT !.transcript = now]
          /\ cachedFailed' = call[c].failed
          /\ call' = [call EXCEPT ![c] =
                        [Op(@) EXCEPT !.pending = "return", !.pc = "release"]]
          /\ UNCHANGED storeErrors
       \/ /\ faulty /\ storeErrors < MaxStoreErrors
          /\ storeErrors' = storeErrors + 1
          /\ call' = [call EXCEPT ![c] =
                        StoreError([Op(@) EXCEPT !.pending = "raise"], "release")]
          /\ UNCHANGED <<cache, cachedFailed, expireAt, written>>
    /\ UNCHANGED <<reachable, faulty, instance, lock, lockExpiries, now, ticks,
                   lockExpireAt, otherVars>>

\* mutant: the finally deletes nothing
Del_Kept(l) == l

\* DEL lock_key: the key afterwards (the command names no owner)
Del(l) == None

\* what follows the finally: the pending return, or the pending exception,
\* which the outer `except Exception` (line 151) catches
AfterFinally(r) ==
    IF r.pending = "return" THEN Return(r, r.structured) ELSE [r EXCEPT !.pc = "except"]

\* lines 131-133: finally: await redis_client.delete(lock_key).  An exception
\* of the delete replaces the pending return or exception.
T_Release(c) ==
    /\ call[c].pc = "release"
    /\ \/ /\ lock' = Del(lock)
          /\ call' = [call EXCEPT ![c] = AfterFinally(Op(@))]
          /\ UNCHANGED storeErrors
       \/ /\ faulty /\ storeErrors < MaxStoreErrors
          /\ storeErrors' = storeErrors + 1
          /\ call' = [call EXCEPT ![c] = StoreError(Op(@), "except")]
          /\ UNCHANGED lock
    /\ UNCHANGED <<reachable, faulty, instance, cache, lockExpiries, cachedFailed, clockVars, otherVars>>

\* mutant: one round more than the range has
NextAttempt_OneMore(r) ==
    IF r.attempt + 1 <= PollAttempts
    THEN [r EXCEPT !.attempt = @ + 1]
    ELSE [r EXCEPT !.attempt = @ + 1, !.timedOut = TRUE, !.pc = "timeout"]

\* one round of the waiting loop found nothing: next attempt, or the loop ends
NextAttempt(r) ==
    IF r.attempt + 1 < PollAttempts
    THEN [r EXCEPT !.attempt = @ + 1]
    ELSE [r EXCEPT !.attempt = @ + 1, !.timedOut = TRUE, !.pc = "timeout"]

\* lines 142-145
AfterPoll(r, cached) ==
    IF Truthy(cached) THEN Return(r, loads(cached)) ELSE NextAttempt(r)

\* lines 139-145: await asyncio.sleep(1); cached = await redis_client.get(cache_key)
T_Poll(c) ==
    /\ call[c].pc = "poll"
    /\ \/ /\ call' = [call EXCEPT ![c] =
                        AfterPoll(Recorded(Polled(Op(@)), cache.transcript, "poll"),
                                  cache.transcript)]
          /\ UNCHANGED storeErrors
       \/ /\ faulty /\ storeErrors < MaxStoreErrors
          /\ storeErrors' = storeErrors + 1
          /\ call' = [call EXCEPT ![c] = StoreError(Polled(Op(@)), "except")]
    /\ UNCHANGED <<reachable, faulty, instance, cache, lock, lockExpiries, cachedFailed, clockVars, otherVars>>

\* line 149, inside the try: an exception of this fetch is caught at line 151
AfterTimeoutFetch(r, o) ==
    IF o[1] = Raised THEN [Fetched(r, o) EXCEPT !.pc = "except"]
    ELSE Return(Fetched(r, o), o[1])

T_TimeoutFetch(c) ==
    /\ call[c].pc = "timeout"
    /\ \E o \in TranscriptOutcomes :
          call' = [call EXCEPT ![c] = AfterTimeoutFetch(@, o)]
    /\ UNCHANGED <<reachable, faulty, instance, cache, lock, storeErrors, lockExpiries, cachedFailed, clockVars, otherVars>>

\* a fetch outside every try: its value is returned, its exception propagates
AfterDirectFetch(r, o) == Return(Fetched(r, o), o[1])

\* mutant: the value of the direct fetch is written to the key
T_DirectFetch_Cached(c) ==
    /\ call[c].pc \in {"direct", "fallback"}
    /\ \E o \in TranscriptOutcomes :
          /\ call' = [call EXCEPT ![c] = AfterDirectFetch(@, o)]
          /\ cache' = [cache EXCEPT !.transcript = dumps(o[1])]
    /\ UNCHANGED <<reachable, faulty, instance, lock, storeErrors, lockExpiries, cachedFailed, clockVars, otherVars>>

\* line 95 (no client), line 106 (the first read raised)
T_DirectFetch(c) ==
    /\ call[c].pc \in {"direct", "fallback"}
    /\ \E o \in TranscriptOutcomes :
          call' = [call EXCEPT ![c] = AfterDirectFetch(@, o)]
    /\ UNCHANGED <<reachable, faulty, instance, cache, lock, storeErrors, lockExpiries, cachedFailed, clockVars, otherVars>>

\* lines 151-154: except Exception: return await self._fetch_and_structure_async(..)
T_ExceptFetch(c) ==
    /\ call[c].pc = "except"
    /\ \E o \in TranscriptOutcomes :
          call' = [call EXCEPT ![c] = AfterDirectFetch(@, o)]
    /\ UNCHANGED <<reachable, faulty, instance, cache, lock, storeErrors, lockExpiries, cachedFailed, clockVars, otherVars>>

\* Redis drops transcript:lock:<id> when the 30 s of `ex=30` have passed
LockExpire ==
    /\ lock # None
    /\ lockExpiries < MaxLockExpiries
    /\ lock' = None
    /\ lockExpiries' = lockExpiries + 1
    /\ UNCHANGED <<reachable, faulty, instance, cache, call, storeErrors, cachedFailed, clockVars, otherVars>>

\* the instants at which a key that is there turns from unexpired to expired:
\* one second before its TTL runs out, and the moment it does
Instants ==
    UNION {{expireAt[k] - 1, expireAt[k]} :
              k \in {x \in DOMAIN cache : cache[x] # None}}

\* Redis at instant t: a key whose TTL has run out is gone, GET replies nil
Expired(c, e, t) ==
    [k \in DOMAIN c |-> IF c[k] # None /\ e[k] <= t THEN None ELSE c[k]]

\* the same for the lock key
ExpiredLock(l, e, t) == IF l # None /\ e <= t THEN None ELSE l

\* time passes up to the instant t
Tick(t) ==
    /\ ticks < MaxTicks
    /\ t \in Instants
    /\ t > now
    /\ now' = t
    /\ ticks' = ticks + 1
    /\ cache' = Expired(cache, expireAt, t)
    /\ lock' = ExpiredLock(lock, lockExpireAt, t)
    /\ UNCHANGED <<reachable, faulty, instance, call, storeErrors, lockExpiries,
                   cachedFailed, expireAt, lockExpireAt, written, otherVars>>

\* the 30 s of `ex=30` are over: the server's clock reads lockExpireAt and
\* the lock key is gone
T_LockTimeout ==
    /\ lock # None
    /\ now' = lockExpireAt
    /\ lock' = ExpiredLock(lock, lockExpireAt, lockExpireAt)
    /\ cache' = Expired(cache, expireAt, lockExpireAt)
    /\ UNCHANGED <<reachable, faulty, instance, call, storeErrors,
                   lockExpiries, cachedFailed, expireAt, lockExpireAt, written,
                   ticks, otherVars>>

(* --------------------------- get_video_details ------------------------- *)
\* `if redis_client is None: return self._fetch_video_details(video_id)`
V_AfterClient(client) == IF client = None THEN "vdirect" ELSE "vget"

\* get_video_details, lines 33-39
V_Start(c) ==
    /\ call[c].pc = "idle"
    /\ instance' = get_instance(instance, reachable)
    /\ call' = [call EXCEPT ![c] =
                  [@ EXCEPT !.op = "video", !.client = instance',
                            !.pc = V_AfterClient(instance')]]
    /\ UNCHANGED <<reachable, faulty, cache, lock, storeErrors, lockExpiries, cachedFailed, clockVars, otherVars>>

\* lines 44-50
V_AfterRead(r, cached) ==
    IF Truthy(cached) THEN Return(r, loads(cached)) ELSE [r EXCEPT !.pc = "vfetch"]

\* lines 41-46, 57-59: cached = await redis_client.get(cache_key)
V_Get(c) ==
    /\ call[c].pc = "vget"
    /\ \/ /\ call' = [call EXCEPT ![c] =
                        V_AfterRead(Recorded(Op(@), cache.video_detail, "first"),
                                    cache.video_detail)]
          /\ UNCHANGED storeErrors
       \/ /\ faulty /\ storeErrors < MaxStoreErrors
          /\ storeErrors' = storeErrors + 1
          /\ call' = [call EXCEPT ![c] = StoreError(Op(@), "vexcept")]
    /\ UNCHANGED <<reachable, faulty, instance, cache, lock, lockExpiries, cachedFailed, clockVars, otherVars>>

\* line 50, inside the try: an exception of this fetch is caught at line 57
V_AfterFetch(r, o) ==
    IF o[1] = Raised THEN [Fetched(r, o) EXCEPT !.pc = "vexcept"]
    ELSE [Fetched(r, o) EXCEPT !.structured = o[1], !.failed = o[2], !.pc = "vsetex"]

V_Fetch(c) ==
    /\ call[c].pc = "vfetch"
    /\ \E o \in DetailOutcomes :
          call' = [call EXCEPT ![c] = V_AfterFetch(@, o)]
    /\ UNCHANGED <<reachable, faulty, instance, cache, lock, storeErrors, lockExpiries, cachedFailed, clockVars, otherVars>>

\* lines 53-55: await redis_client.setex(cache_key, 300, json.dumps(data)); return data
V_Setex(c) ==
    /\ call[c].pc = "vsetex"
    /\ \/ /\ cache' = [cache EXCEPT !.video_detail = dumps(call[c].structured)]
          /\ expireAt' = [expireAt EXCEPT !.video_detail = now + DetailTTL]
          /\ written' = [written EXCEPT !.video_detail = now]
          /\ call' = [call EXCEPT ![c] = Return(Op(@), @.structured)]
          /\ UNCHANGED storeErrors
       \/ /\ faulty /\ storeErrors < MaxStoreErrors
          /\ storeErrors' = storeErrors + 1
          /\ call' = [call EXCEPT ![c] = StoreError(Op(@), "vexcept")]
          /\ UNCHANGED <<cache, expireAt, written>>
    /\ UNCHANGED <<reachable, faulty, instance, lock, lockExpiries, cachedFailed, now,
                   ticks, lockExpireAt, otherVars>>

\* line 39 (no client) and line 59 (except Exception): the fetch outside the try
V_DirectFetch(c) ==
    /\ call[c].pc \in {"vdirect", "vexcept"}
    /\ \E o \in DetailOutcomes :
          call' = [call EXCEPT ![c] = AfterDirectFetch(@, o)]
    /\ UNCHANGED <<reachable, faulty, instance, cache, lock, storeErrors, lockExpiries, cachedFailed, clockVars, otherVars>>

(* ------------------------------ the tasks ------------------------------ *)
\* class Status(str, Enum)
PENDING == "pending"
COMPLETED == "completed"
FAILED == "failed"
Status == {PENDING, COMPLETED, FAILED}

Reports == 1..NReports

\* step not in ["overview", "analysis"]
Steps == {"overview", "analysis"}

NoTask ==
    [exists |-> FALSE, overview_status |-> PENDING, analysis_status |-> PENDING,
     idea_status |-> PENDING]

\* task_data of create_report
NewTask ==
    [exists |-> TRUE, overview_status |-> PENDING, analysis_status |-> PENDING,
     idea_status |-> COMPLETED]

\* the status column of a step
StatusOf(t, step) ==
    IF step = "overview" THEN t.overview_status ELSE t.analysis_status

WithStatus(t, step, st) ==
    IF step = "overview" THEN [t EXCEPT !.overview_status = st]
    ELSE [t EXCEPT !.analysis_status = st]

\* TaskRepository.find_by_report: scalar_one_or_none() of the rows of the report
find_by_report(tbl, report_id) ==
    IF report_id \in DOMAIN tbl THEN tbl[report_id] ELSE NoTask

\* the <<report, step>> whose status column reads COMPLETED or FAILED
Terminal(tbl) ==
    {<<r, s>> \in Reports \X Steps :
        tbl[r].exists /\ StatusOf(tbl[r], s) \in {COMPLETED, FAILED}}

(* ------------------------------ dispatcher ----------------------------- *)
\* Message(task_id, report_id, step, google_access_token[, skip_vector_save]).
\* The task is the only one of its report: its id is modelled by the report's.
Message(r, step) == [task_id |-> r, report_id |-> r, step |-> step]

\* create_report and create_report_v2 (the same but for the topic names and
\* skip_vector_save): save the report, save its task with both steps PENDING,
\* send the overview message, then the analysis message
create_report ==
    /\ nextReport <= NReports
    /\ tasks' = [tasks EXCEPT ![nextReport] = NewTask]
    /\ nextReport' = nextReport + 1
    /\ kafka' = kafka \cup {Message(nextReport, "overview"),
                            Message(nextReport, "analysis")}
    /\ terminal' = terminal \cup Terminal(tasks')
    /\ UNCHANGED <<channel, published, listener, summarizeCalls, accepted,
                   last, cacheVars, retryVars, dispatchVars, consumerVars,
                   singletonVars, wireVars>>

(* ----------------------- the channel "complete" ------------------------ *)
\* The inner message, a JSON text: not JSON at all, or the object
\* {status, step, report} with any of the three missing ("" / 0 = missing).
InnerObject(status, step, report) ==
    [kind |-> "object", status |-> status, step |-> step, report |-> report]

InnerAbsent == [kind |-> "absent", status |-> "", step |-> "", report |-> 0]
InnerGarbage == [kind |-> "garbage", status |-> "", step |-> "", report |-> 0]

\* RedisService.publish: json.dumps({"userId": user_id, "message": message})
Envelope(user_id, message) ==
    [outer |-> "object", userId |-> user_id, message |-> message]

\* data on the channel that no RedisService.publish produced: text that is
\* not JSON, and JSON that is no object
OuterGarbage == [outer |-> "garbage", userId |-> "", message |-> InnerAbsent]
OuterList == [outer |-> "list", userId |-> "", message |-> InnerAbsent]

\* the notifications a worker sends for a step of a report
Notifications ==
    {InnerObject("success", sp, r) : sp \in Steps, r \in Reports}

\* a notification with one field changed: a failure, no status, a step the
\* listener does not track, no report id
Defective ==
    {InnerObject("failure", "overview", 1), InnerObject("", "analysis", 1),
     InnerObject("success", "idea", 1), InnerObject("success", "overview", 0)}

Inners == {InnerAbsent, InnerGarbage} \cup Notifications \cup Defective

RawMessages == {OuterGarbage, OuterList} \cup {Envelope("u", m) : m \in Inners}

\* PUBLISH reaches the connections subscribed at that moment only: with no
\* subscription it changes nothing
Subscribed == listener = "listening"

\* a worker that read the dispatch message m from its topic (the topics
\* deliver at least once) reports the step's outcome through
\* RedisService.publish
WorkerPublish(m, ok) ==
    /\ m \in kafka
    /\ Subscribed
    /\ published < MaxPublished
    /\ Len(channel) < MaxQueue
    /\ published' = published + 1
    /\ channel' = Append(channel,
                    Envelope("u", InnerObject(IF ok THEN "success" ELSE "failure",
                                              m.step, m.report_id)))
    /\ UNCHANGED <<tasks, nextReport, kafka, listener, summarizeCalls,
                   accepted, last, terminal, cacheVars, retryVars, dispatchVars, consumerVars,
                   singletonVars, wireVars>>

\* any publisher of the channel: duplicates, other orders, foreign payloads
Publish(raw) ==
    /\ Subscribed
    /\ published < MaxPublished
    /\ Len(channel) < MaxQueue
    /\ published' = published + 1
    /\ channel' = Append(channel, raw)
    /\ UNCHANGED <<tasks, nextReport, kafka, listener, summarizeCalls,
                   accepted, last, terminal, cacheVars, retryVars, dispatchVars, consumerVars,
                   singletonVars, wireVars>>

\* the writer of the status columns: a step of an existing task leaves PENDING
WriteStatus(r, step, st) ==
    /\ tasks[r].exists
    /\ StatusOf(tasks[r], step) = PENDING
    /\ st \in {COMPLETED, FAILED}
    /\ tasks' = [tasks EXCEPT ![r] = WithStatus(@, step, st)]
    /\ terminal' = terminal \cup Terminal(tasks')
    /\ UNCHANGED <<nextReport, kafka, channel, published, listener,
                   summarizeCalls, accepted, last, cacheVars, retryVars, dispatchVars, consumerVars,
                   singletonVars, wireVars>>

(* ------------------------------ the listener --------------------------- *)
\* the exception, if any, of parsing the two envelopes (lines 44-59):
\* json.loads of text that is not JSON, .get on a JSON value that is no dict
ParseError(raw) ==
    CASE raw.outer = "garbage" -> "JSONDecodeError"
      [] raw.outer = "list" -> "AttributeError"
      [] raw.message.kind = "garbage" -> "JSONDecodeError"
      [] OTHER -> "none"

\* line 50: if not inner_message: return
NoInner(raw) == raw.message.kind = "absent"

\* mutant: only the analysis step is recognised
Ignored_AnalysisOnly(payload) ==
    \/ payload.report = 0
    \/ payload.status # "success"
    \/ payload.step # "analysis"

\* mutant: the status test left out of the filter
Ignored_NoStatusTest(payload) ==
    \/ payload.report = 0
    \/ payload.step \notin Steps

\* line 62: if not report_id or status != "success" or step not in [...]
Ignored(payload) ==
    \/ payload.report = 0
    \/ payload.status # "success"
    \/ payload.step \notin Steps

\* mutant: one COMPLETED step is enough
BothCompleted_Either(task) ==
    task.overview_status = COMPLETED \/ task.analysis_status = COMPLETED

\* line 71
BothCompleted(task) ==
    task.overview_status = COMPLETED /\ task.analysis_status = COMPLETED

\* mutant: the handler of line 84 left out
Caught_OnlyJSONDecodeError(exc) == exc = "JSONDecodeError"

\* mutant: no handler for json.JSONDecodeError, and a narrower second one
Caught_OnlyAttributeError(exc) == exc = "AttributeError"

\* lines 82-85: except json.JSONDecodeError / except Exception
Caught(exc) == exc \in {"JSONDecodeError", "AttributeError"}

\* mutant: the handler stores the step's status, with the wrong member of Status
TaskAfterMessage_StorePending(task, payload) ==
    WithStatus(task, payload.step, PENDING)

\* the row of the report after handle_message: the handler reads it (line 69)
\* and writes nothing
TaskAfterMessage(task, payload) == task

\* How handle_message ends for raw data, given the task table.
Outcome(raw, tbl) ==
    IF ParseError(raw) # "none" /\ raw.outer # "object" THEN ParseError(raw)
    ELSE IF NoInner(raw) THEN "no-inner"
    ELSE IF ParseError(raw) # "none" THEN ParseError(raw)
    ELSE IF Ignored(raw.message) THEN "ignored"
    ELSE IF ~find_by_report(tbl, raw.message.report).exists THEN "AttributeError"
    ELSE IF BothCompleted(find_by_report(tbl, raw.message.report)) THEN "summarize"
    ELSE "not-ready"

Exceptions == {"JSONDecodeError", "AttributeError"}

\* the notification passed line 62
Accepted(raw) ==
    /\ ParseError(raw) = "none"
    /\ ~NoInner(raw)
    /\ ~Ignored(raw.message)

\* history counters tell 0, 1 and "more than one" apart
Once(n) == IF n = 0 THEN 1 ELSE 2

NoLast == [raw |-> OuterGarbage, outcome |-> "none", loaded |-> FALSE,
           wrote |-> FALSE, raised |-> FALSE]

\* start, lines 22-27: get the client, subscribe.  With no client,
\* redis.pubsub() raises before anything is subscribed.
L_Start ==
    /\ listener = "init"
    /\ instance' = get_instance(instance, reachable)
    /\ listener' = IF instance' = None THEN "crashed" ELSE "listening"
    /\ UNCHANGED <<tasks, nextReport, kafka, channel, published, summarizeCalls,
                   accepted, last, terminal, reachable, faulty, cache, lock, call,
                   storeErrors, lockExpiries, cachedFailed,
                   clockVars, retryVars, dispatchVars, consumerVars,
                   singletonVars, wireVars>>

\* one round of `async for message in pubsub.listen()`: handle_message on the
\* oldest message, with the summarize_update_changes it awaits (its result:
\* success)
handle_message(success) ==
    /\ listener = "listening"
    /\ channel # <<>>
    /\ LET raw == Head(channel)
           out == Outcome(raw, tasks)
           r == raw.message.report
       IN /\ channel' = Tail(channel)
          /\ tasks' = IF Accepted(raw) /\ r \in Reports
                      THEN [tasks EXCEPT ![r] = TaskAfterMessage(@, raw.message)]
                      ELSE tasks
          /\ summarizeCalls' = IF out = "summarize"
                               THEN [summarizeCalls EXCEPT ![r] = Once(@)]
                               ELSE summarizeCalls
          /\ accepted' = IF Accepted(raw) /\ find_by_report(tasks, r).exists
                           THEN [accepted EXCEPT ![r] = @ \cup {raw.message.step}]
                           ELSE accepted
          /\ terminal' = terminal \cup Terminal(tasks')
          /\ last' = [raw |-> raw,
                      outcome |-> IF out = "summarize" /\ ~success
                                   THEN "summarize-failed" ELSE out,
                      loaded |-> Accepted(raw),
                      wrote |-> (tasks' # tasks),
                      raised |-> (out \in Exceptions /\ ~Caught(out))]
          /\ listener' = IF out \in Exceptions /\ ~Caught(out)
                         THEN "stopped" ELSE "listening"
          /\ (out # "summarize" => success)
    /\ UNCHANGED <<nextReport, kafka, published, cacheVars, retryVars, dispatchVars, consumerVars,
                   singletonVars, wireVars>>

\* pubsub.listen() raises: line 33 catches and logs it, the finally
\* unsubscribes and closes the subscription (lines 35-37) and start returns.
\* An exception of the unsubscribe leaves the finally at line 36: the
\* subscription is not closed and start ends with that exception.
L_StreamError ==
    /\ listener = "listening"
    /\ \/ listener' = "stopped"
       \/ faulty /\ listener' = "aborted"
    /\ channel' = <<>>
    /\ UNCHANGED <<tasks, nextReport, kafka, published, summarizeCalls,
                   accepted, last, terminal, cacheVars, retryVars, dispatchVars, consumerVars,
                   singletonVars, wireVars>>

(* ----------------- the envelope as text on the channel ----------------- *)
\* A Python value here is a str, an int or None; a text is a sequence of
\* tokens: punctuation, words, and the str and int values written in it.
Punct(p) == [type |-> "punct", sym |-> p, num |-> 0, text |-> <<>>]
Word(w) == [type |-> "word", sym |-> w, num |-> 0, text |-> <<>>]
Text(t) == [type |-> "str", sym |-> "", num |-> 0, text |-> t]
Num(n) == [type |-> "int", sym |-> "", num |-> n, text |-> <<>>]
NoneValue == [type |-> "none", sym |-> "", num |-> 0, text |-> <<>>]

\* the str made of the one word w
Plain(w) == Text(<<Word(w)>>)

\* json.dumps of a dict, given as the sequence of its <<key, value>>
RECURSIVE Members(_)
Members(d) ==
    IF Len(d) = 0 THEN <<>>
    ELSE <<Plain(d[1][1]), Punct(":"), d[1][2]>>
            \o (IF Len(d) = 1 THEN <<>> ELSE <<Punct(",")>> \o Members(Tail(d)))

json_dumps(d) == <<Punct("{")>> \o Members(d) \o <<Punct("}")>>

\* the members of the body b of an object, when b is well formed
RECURSIVE Pairs(_)
Pairs(b) ==
    IF Len(b) = 0 THEN [kind |-> "dict", d |-> <<>>]
    ELSE IF Len(b) >= 3 /\ b[1].type = "str" /\ b[2] = Punct(":")
               /\ b[3].type \in {"str", "int"}
         THEN IF Len(b) = 3 THEN [kind |-> "dict", d |-> << <<b[1], b[3]>> >>]
              ELSE IF Len(b) > 4 /\ b[4] = Punct(",")
                   THEN LET rest == Pairs(SubSeq(b, 5, Len(b)))
                        IN [kind |-> rest.kind, d |-> << <<b[1], b[3]>> >> \o rest.d]
                   ELSE [kind |-> "error", d |-> <<>>]
         ELSE [kind |-> "error", d |-> <<>>]

\* json.loads of a text: a dict, another JSON value, or JSONDecodeError
json_loads(t) ==
    IF Len(t) >= 2 /\ t[1] = Punct("{") /\ t[Len(t)] = Punct("}")
    THEN Pairs(SubSeq(t, 2, Len(t) - 1))
    ELSE IF Len(t) = 1 /\ t[1].type \in {"str", "int"}
         THEN [kind |-> "other", d |-> <<>>]
         ELSE [kind |-> "error", d |-> <<>>]

\* dict.get(key): the value of the last member with that key, or None
RECURSIVE get(_, _)
get(d, key) ==
    IF Len(d) = 0 THEN NoneValue
    ELSE IF d[Len(d)][1] = Plain(key) THEN d[Len(d)][2]
         ELSE get(SubSeq(d, 1, Len(d) - 1), key)

\* `not v`
Falsy(v) ==
    \/ v.type = "none"
    \/ v.type = "str" /\ v.text = <<>>
    \/ v.type = "int" /\ v.num = 0

\* redis_service.py line 8: channel="complete"
RedisService_channel == "complete"

\* redis_subscriber.py line 18
redis_channel_name == "complete"

\* mutant: the inner message goes under the key "payload"
publish_KeyPayload(user_id, message) ==
    [channel |-> RedisService_channel, type |-> "message",
     data |-> json_dumps(<< <<"userId", Plain(user_id)>>, <<"payload", message>> >>)]

\* RedisService.publish, lines 14-15: what subscribers of the channel get
publish(user_id, message) ==
    [channel |-> RedisService_channel, type |-> "message",
     data |-> json_dumps(<< <<"userId", Plain(user_id)>>, <<"message", message>> >>)]

\* the str a worker passes as message: the JSON text of {status, step, report}
Completion(status, step, report) ==
    Text(json_dumps(<< <<"status", Plain(status)>>, <<"step", Plain(step)>>,
                      <<"report", Num(report)>> >>))

\* a str of one word as the model's string, an int as the model's number;
\* None and every other value read as missing ("" / 0)
StrOf(v) ==
    IF v.type = "str" /\ Len(v.text) = 1 /\ v.text[1].type = "word"
    THEN v.text[1].sym ELSE ""

IntOf(v) == IF v.type = "int" THEN v.num ELSE 0

\* lines 57-59: status, step and report_id of the payload
PayloadOf(d) ==
    InnerObject(StrOf(get(d, "status")), StrOf(get(d, "step")),
                IntOf(get(d, "report")))

Undecoded(outcome) == [outcome |-> outcome, payload |-> InnerAbsent]

\* handle_message, lines 44-64, on the data of one message
Decoded(raw_data) ==
    LET data_json == json_loads(raw_data)
        inner_message == get(data_json.d, "message")
        payload == json_loads(inner_message.text)
    IN IF data_json.kind = "error" THEN Undecoded("JSONDecodeError")
       ELSE IF data_json.kind # "dict" THEN Undecoded("AttributeError")
       ELSE IF Falsy(inner_message) THEN Undecoded("no-inner")
       ELSE IF inner_message.type # "str" THEN Undecoded("TypeError")
       ELSE IF payload.kind = "error" THEN Undecoded("JSONDecodeError")
       ELSE IF payload.kind # "dict" THEN Undecoded("AttributeError")
       ELSE [outcome |-> IF Ignored(PayloadOf(payload.d)) THEN "ignored"
                                                            ELSE "accepted",
             payload |-> PayloadOf(payload.d)]

UserIds == {"u1", "u2", "u3"}

IdleWire ==
    [pc |-> "idle", user_id |-> "", status |-> "", step |-> "", report |-> 0,
     channel |-> "", type |-> "", data |-> <<>>, outcome |-> "none",
     payload |-> InnerAbsent]

\* RedisService.publish(user_id, message), lines 12-18; an exception of the
\* PUBLISH is logged and nothing is sent
E_Publish(user_id, status, step, report, ok) ==
    /\ wire.pc = "idle"
    /\ LET sent == publish(user_id, Completion(status, step, report))
       IN wire' = [wire EXCEPT
                     !.pc = IF ok THEN "sent" ELSE "failed",
                     !.user_id = user_id, !.status = status, !.step = step,
                     !.report = report,
                     !.channel = IF ok THEN sent.channel ELSE @,
                     !.type = IF ok THEN sent.type ELSE @,
                     !.data = IF ok THEN sent.data ELSE @]
    /\ UNCHANGED <<programVars, singletonVars>>

\* start, lines 26-32: the subscription to redis_channel_name hands the
\* data of a message of that channel to handle_message
E_Listen ==
    /\ wire.pc = "sent"
    /\ wire' = [wire EXCEPT
                  !.pc = IF wire.channel = redis_channel_name
                              /\ wire.type = "message"
                         THEN "handling" ELSE "dropped"]
    /\ UNCHANGED <<programVars, singletonVars>>

\* handle_message, lines 44-64
E_Handle ==
    /\ wire.pc = "handling"
    /\ wire' = [wire EXCEPT !.pc = "handled",
                            !.outcome = Decoded(wire.data).outcome,
                            !.payload = Decoded(wire.data).payload]
    /\ UNCHANGED <<programVars, singletonVars>>

(* ------------------- summarize_update_changes --------------------------- *)
\* the methods a ReportLogRepository has: the two of its class, and the
\* generic ones that the repositories of every model are called with
ReportLogRepositoryMethods ==
    {"model_class", "find_by_video_for_update", "save", "save_bulk", "find_by_id"}

\* report_repository.save({"id": .., "update_summary": update_summary_text})
UpdateSummary == "update-summary"

\* how one summarize_update_changes ends: what it returns ("True", "False",
\* or "raised" when an exception leaves it), the exception that was raised
\* inside it, and whether update_summary was saved
Summary(result, exc, saved) == [result |-> result, exc |-> exc, saved |-> saved]

NoSummary == Summary("none", "none", FALSE)

\* mutant: no handler in summarize_update_changes
Except_Propagated(exc) == Summary("raised", exc, FALSE)

\* lines 337-339: except Exception: log, return False
Except(exc) == Summary("False", exc, FALSE)

\* lines 314-335.  found: what report_repository.find_by_id gave ("row",
\* "none", or "raise" when the query raised); prev: whether a log of the
\* video exists.  Line 322 reads the attribute find_by_video of the
\* repository before anything is queried.
summarize_update_changes(found, prev) ==
    IF found = "raise" THEN Except("SQLAlchemyError")
    ELSE IF found = "none" THEN Summary("False", "none", FALSE)
    ELSE IF "find_by_video" \notin ReportLogRepositoryMethods
         THEN Except("AttributeError")
    ELSE IF ~prev THEN Summary("True", "none", FALSE)
    ELSE Summary("True", "none", TRUE)

(* -------------- the listener processes, await by await ----------------- *)
Listeners == 1..NListeners

IdleConsumer ==
    [pc |-> "init", queue |-> <<>>, active |-> 0, payload |-> InnerAbsent,
     both |-> FALSE, task |-> NoTask, triggered |-> FALSE,
     invoked |-> [r \in Reports |-> 0], ret |-> NoSummary, found |-> "none",
     prev |-> FALSE, joined |-> 0, heard |-> 0, taken |-> 0]

\* mutant: a work queue, one of the subscribers gets the message
Receivers_OneOf(c) ==
    LET subs == {l \in Listeners : c[l].pc \notin {"init", "crashed"}}
    IN IF subs = {} THEN {} ELSE {CHOOSE l \in subs : TRUE}

\* PUBLISH on a channel: every connection subscribed to it gets the message
Receivers(c) == {l \in Listeners : c[l].pc \notin {"init", "crashed"}}

\* start, lines 22-27, of listener process l
C_Start(l) ==
    /\ consumer[l].pc = "init"
    /\ instance' = get_instance(instance, reachable)
    /\ consumer' = [consumer EXCEPT ![l] =
                      [@ EXCEPT !.pc = IF instance' = None THEN "crashed"
                                                           ELSE "listen",
                                !.joined = published]]
    /\ UNCHANGED <<update_summary, reachable, faulty, cache, lock, call,
                   storeErrors, lockExpiries, cachedFailed, clockVars,
                   listenerVars, retryVars, dispatchVars, singletonVars, wireVars>>

\* a worker that read the dispatch message m reports the step's outcome
\* through RedisService.publish (the topics deliver at least once)
C_Publish(m, ok) ==
    /\ m \in kafka
    /\ published < MaxPublished
    /\ published' = published + 1
    /\ LET raw == Envelope("u", InnerObject(IF ok THEN "success" ELSE "failure",
                                            m.step, m.report_id))
       IN consumer' = [l \in Listeners |->
                         IF l \in Receivers(consumer)
                         THEN [consumer[l] EXCEPT !.queue = Append(@, raw),
                                                  !.heard = @ + 1]
                         ELSE consumer[l]]
    /\ UNCHANGED <<update_summary, tasks, nextReport, kafka, channel, listener,
                   summarizeCalls, accepted, last, terminal, cacheVars,
                   retryVars, dispatchVars, singletonVars, wireVars>>

\* mutant: handle_message is spawned, not awaited
Awaiting_Spawned(c) == c.pc \in {"listen", "find_task", "summarize"}

\* lines 30-32: the loop is at its `async for`; the handle_message it
\* awaited, if any, has returned
Awaiting(c) == c.pc = "listen"

\* handle_message returns to the loop of start
Returned(c) == [c EXCEPT !.pc = "listen", !.active = @ - 1]

\* lines 30-64: the next message of the subscription, parsed and filtered
\* (both: history, whether the two steps of the message's report read
\* COMPLETED at this moment, and again when the task is read)
C_Take(l) ==
    /\ Awaiting(consumer[l])
    /\ consumer[l].queue # <<>>
    /\ LET raw == Head(consumer[l].queue)
           r == raw.message.report
           c == [consumer[l] EXCEPT
                    !.queue = Tail(@), !.active = @ + 1, !.taken = @ + 1,
                    !.payload = raw.message, !.task = NoTask,
                    !.triggered = FALSE,
                    !.both = (r \in Reports /\ tasks[r].exists
                                /\ tasks[r].overview_status = COMPLETED
                                /\ tasks[r].analysis_status = COMPLETED)]
       IN consumer' = [consumer EXCEPT ![l] =
                          IF Accepted(raw) THEN [c EXCEPT !.pc = "find_task"]
                          ELSE Returned(c)]
    /\ UNCHANGED <<update_summary, cacheVars, listenerVars, retryVars,
                   dispatchVars, singletonVars, wireVars>>

\* lines 69-75, after the row of the task has come: None has no
\* overview_status (AttributeError, caught at line 84); both steps
\* COMPLETED: summarize_update_changes is invoked; else nothing is done
AfterFindTask(c, task) ==
    IF ~task.exists THEN Returned(c)
    ELSE IF BothCompleted(task)
         THEN [c EXCEPT !.task = task, !.pc = "summarize", !.triggered = TRUE,
                        !.invoked[c.payload.report] = Once(@)]
    ELSE Returned([c EXCEPT !.task = task, !.both = FALSE])

\* line 69: task = await self.task_repository.find_by_report(report_id)
C_FindTask(l) ==
    /\ consumer[l].pc = "find_task"
    /\ consumer' = [consumer EXCEPT ![l] =
                      AfterFindTask(@, find_by_report(tasks, @.payload.report))]
    /\ UNCHANGED <<update_summary, cacheVars, listenerVars, retryVars,
                   dispatchVars, singletonVars, wireVars>>

\* mutant: the reconciliation puts the analysis step of its task back to
\* PENDING
C_Summarize_ResetsStep(l, found, prev) ==
    /\ consumer[l].pc = "summarize"
    /\ consumer' = [consumer EXCEPT ![l] =
                       Returned([@ EXCEPT !.ret = summarize_update_changes(found, prev),
                                          !.found = found, !.prev = prev])]
    /\ tasks' = [tasks EXCEPT ![consumer[l].payload.report] =
                                 WithStatus(@, "analysis", PENDING)]
    /\ UNCHANGED <<update_summary, nextReport, kafka, channel, published,
                   listener, summarizeCalls, accepted, last, terminal,
                   cacheVars, retryVars, dispatchVars, singletonVars, wireVars>>

\* lines 75-85: summarize_update_changes returns; its result is logged, an
\* exception out of it would be caught at line 84
C_Summarize(l, found, prev) ==
    /\ consumer[l].pc = "summarize"
    /\ LET ret == summarize_update_changes(found, prev)
       IN /\ consumer' = [consumer EXCEPT ![l] =
                             Returned([@ EXCEPT !.ret = ret, !.found = found,
                                                !.prev = prev])]
          /\ update_summary' =
                IF ret.saved
                THEN [update_summary EXCEPT ![consumer[l].payload.report] =
                                                 UpdateSummary]
                ELSE update_summary
    /\ UNCHANGED <<cacheVars, listenerVars, retryVars, dispatchVars, singletonVars, wireVars>>

(* ---------------------- analyze_viewer_retention ----------------------- *)
\* line 107: max_retries = 3
max_retries == 3

\* the seconds of `wait_time = retry_count * 5`
BackoffUnit == 5

\* leave_result when the retries are used up (line 135), in English
Placeholder == "viewer retention analysis failed (network timeout)"

\* the exception classes analyze_leave raises, by class name; the last two
\* stand for every class the handler does not name
Fatal == {"AttributeError", "TypeError", "KeyError"}
Network == {"ConnectTimeout", "ReadTimeout", "ConnectionError", "TimeoutError"}
Unnamed == {"ValueError", "ConnectionResetError"}
ErrorKinds == Fatal \cup Network \cup Unnamed

\* what the n-th invocation of analyze_leave returns when it returns
LeaveValue(n) ==
    CASE n = 1 -> "leave-1" [] n = 2 -> "leave-2" [] n = 3 -> "leave-3"
      [] OTHER -> "leave-n"

IdleRetry ==
    [pc |-> "idle", skip_vector_save |-> FALSE, retry_count |-> 0,
     leave_result |-> None, calls |-> 0, errors |-> <<>>, waits |-> <<>>,
     vector |-> None, report |-> None, outcome |-> "none"]

\* the exception leaves analyze_viewer_retention (line 160 re-raises it)
Raise(r, kind) == [r EXCEPT !.pc = "done", !.outcome = kind]

\* lines 141-149: save_context unless skip_vector_save
AfterLoop(r) == IF r.skip_vector_save THEN "save_report" ELSE "save_context"

\* line 119: except (AttributeError, TypeError, KeyError)
IsFatal(kind) == kind \in Fatal

\* mutant: every class name counts as a network error
Retryable_AnyName(error_type) == TRUE

\* line 127: error_type in ['ConnectTimeout', 'ReadTimeout', 'ConnectionError', 'TimeoutError']
Retryable(error_type) ==
    error_type \in {"ConnectTimeout", "ReadTimeout", "ConnectionError", "TimeoutError"}

\* mutant: the same wait before every attempt
wait_time_Constant(retry_count) == BackoffUnit

\* line 130: wait_time = retry_count * 5
wait_time(retry_count) == retry_count * BackoffUnit

\* mutant: the last network error is raised
Exhausted_Raises(r) == Raise(r, "TimeoutError")

\* lines 133-136: the placeholder becomes leave_result, break
Exhausted(r) == [r EXCEPT !.leave_result = Placeholder, !.pc = AfterLoop(r)]

\* lines 128-136: retry_count += 1, then sleep and continue, or give up
AfterRetryable(r) ==
    IF r.retry_count + 1 < max_retries
    THEN [r EXCEPT !.retry_count = @ + 1, !.pc = "sleep"]
    ELSE Exhausted([r EXCEPT !.retry_count = @ + 1])

\* mutant: the three classes are handled like network errors
AfterFatal_Retried(r, kind) == AfterRetryable(r)

\* lines 119-121: raise
AfterFatal(r, kind) == Raise(r, kind)

\* lines 113-139: how one invocation of analyze_leave ends (o: "ok" or the
\* class name of its exception)
AfterCall(r, o) ==
    IF o = "ok" THEN [r EXCEPT !.leave_result = LeaveValue(r.calls), !.pc = AfterLoop(r)]
    ELSE IF IsFatal(o) THEN AfterFatal(r, o)
    ELSE IF Retryable(o) THEN AfterRetryable(r)
    ELSE Raise(r, o)

\* analyze_viewer_retention is called, lines 105-111
R_Start(skip) ==
    /\ retry.pc = "idle"
    /\ retry' = [retry EXCEPT !.pc = "call", !.skip_vector_save = skip]
    /\ UNCHANGED <<cacheVars, listenerVars, dispatchVars, consumerVars, singletonVars, wireVars>>

\* line 114: leave_result = await leave_analyize.analyze_leave(video, token)
R_Call(o) ==
    /\ retry.pc = "call"
    /\ retry.retry_count < max_retries
    /\ retry' = AfterCall([retry EXCEPT !.calls = @ + 1,
                                        !.errors = IF o = "ok" THEN @ ELSE Append(@, o)],
                          o)
    /\ UNCHANGED <<cacheVars, listenerVars, dispatchVars, consumerVars, singletonVars, wireVars>>

\* lines 131-132: await asyncio.sleep(wait_time); continue
R_Sleep ==
    /\ retry.pc = "sleep"
    /\ retry' = [retry EXCEPT !.waits = Append(@, wait_time(retry.retry_count)),
                              !.pc = "call"]
    /\ UNCHANGED <<cacheVars, listenerVars, dispatchVars, consumerVars, singletonVars, wireVars>>

\* lines 142-147: await self.content_chunk_repository.save_context(..)
R_SaveContext(ok) ==
    /\ retry.pc = "save_context"
    /\ retry' = IF ok THEN [retry EXCEPT !.vector = retry.leave_result,
                                         !.pc = "save_report"]
                ELSE Raise(retry, "StorageError")
    /\ UNCHANGED <<cacheVars, listenerVars, dispatchVars, consumerVars, singletonVars, wireVars>>

\* lines 152-157: await self.report_repository.save(..); return True
R_SaveReport(ok) ==
    /\ retry.pc = "save_report"
    /\ retry' = IF ok THEN [retry EXCEPT !.report = retry.leave_result,
                                         !.pc = "done", !.outcome = "True"]
                ELSE Raise(retry, "StorageError")
    /\ UNCHANGED <<cacheVars, listenerVars, dispatchVars, consumerVars, singletonVars, wireVars>>

(* ------------- create_report / create_report_v2, step by step ---------- *)
Requests == 1..NRequests

\* request.googleAccessToken of request i
Token(i) == <<"token", i>>

IdleRequest ==
    [pc |-> "idle", v2 |-> FALSE, report_id |-> 0, task_id |-> 0,
     response |-> 0]

\* mutant: the two sends in the other order
Program_AnalysisFirst ==
    <<"save_report", "save_task", "send_analysis", "send_overview", "done">>

\* the awaits of the handler in program order (lines 58, 68, 87, 88), then
\* the return
Program ==
    <<"save_report", "save_task", "send_overview", "send_analysis", "done">>

\* the position after the await `step`
After(step) ==
    Program[(CHOOSE k \in 1..Len(Program) : Program[k] = step) + 1]

\* the topic names of create_report and of create_report_v2
Topic(step, v2) ==
    CASE step = "overview" /\ ~v2 -> "overview-topic"
      [] step = "analysis" /\ ~v2 -> "analysis-topic"
      [] step = "overview" /\ v2 -> "overview-topic-v2"
      [] OTHER -> "analysis-topic-v2"

\* Message(task_id=task.id, report_id=report.id, step=.., google_access_token=..
\* [, skip_vector_save=True])
DispatchMessage(q, i, step) ==
    [task_id |-> q.task_id, report_id |-> q.report_id, step |-> step,
     google_access_token |-> Token(i), skip_vector_save |-> q.v2]

\* mutant: the task is saved with its two steps COMPLETED
TaskRow_Completed(id, report_id) ==
    [id |-> id, report_id |-> report_id, overview_status |-> COMPLETED,
     analysis_status |-> COMPLETED, idea_status |-> COMPLETED]

\* task_data, lines 62-67
TaskRow(id, report_id) ==
    [id |-> id, report_id |-> report_id, overview_status |-> PENDING,
     analysis_status |-> PENDING, idea_status |-> COMPLETED]

\* an exception of an await leaves the handler: nothing is undone
Failed(q) == [q EXCEPT !.pc = "failed"]

\* POST /reports/v1 or /reports/v2 arrives
D_Start(i, v2) ==
    /\ request[i].pc = "idle"
    /\ request' = [request EXCEPT ![i] = [@ EXCEPT !.v2 = v2, !.pc = Program[1]]]
    /\ UNCHANGED <<reportRows, taskRows, topics, cacheVars, listenerVars, retryVars, consumerVars,
                   singletonVars, wireVars>>

\* line 58: report = await report_repository.save(data=report_data)
D_SaveReport(i, ok) ==
    /\ request[i].pc = "save_report"
    /\ IF ok
       THEN LET id == Cardinality(reportRows) + 1
            IN /\ reportRows' = reportRows \cup {id}
               /\ request' = [request EXCEPT ![i] =
                                 [@ EXCEPT !.report_id = id,
                                           !.pc = After("save_report")]]
       ELSE /\ request' = [request EXCEPT ![i] = Failed(@)]
            /\ UNCHANGED reportRows
    /\ UNCHANGED <<taskRows, topics, cacheVars, listenerVars, retryVars, consumerVars,
                   singletonVars, wireVars>>

\* line 68: task = await task_repository.save(data=task_data)
D_SaveTask(i, ok) ==
    /\ request[i].pc = "save_task"
    /\ IF ok
       THEN LET id == Cardinality(taskRows) + 1
            IN /\ taskRows' = taskRows \cup {TaskRow(id, request[i].report_id)}
               /\ request' = [request EXCEPT ![i] =
                                 [@ EXCEPT !.task_id = id,
                                           !.pc = After("save_task")]]
       ELSE /\ request' = [request EXCEPT ![i] = Failed(@)]
            /\ UNCHANGED taskRows
    /\ UNCHANGED <<reportRows, topics, cacheVars, listenerVars, retryVars, consumerVars,
                   singletonVars, wireVars>>

\* the position of the send of a step's message
SendOf(step) == IF step = "overview" THEN "send_overview" ELSE "send_analysis"

\* the handler has come to its return: the response carries task.id
Arrived(q) == IF q.pc = "done" THEN [q EXCEPT !.response = q.task_id] ELSE q

\* lines 87-88 (139-140): await report_producer.send_message(topic, message)
D_Send(i, step, ok) ==
    /\ request[i].pc = SendOf(step)
    /\ IF ok
       THEN /\ topics' = Append(topics,
                           [topic |-> Topic(step, request[i].v2),
                            message |-> DispatchMessage(request[i], i, step)])
            /\ request' = [request EXCEPT ![i] =
                              Arrived([@ EXCEPT !.pc = After(SendOf(step))])]
       ELSE /\ request' = [request EXCEPT ![i] = Failed(@)]
            /\ UNCHANGED topics
    /\ UNCHANGED <<reportRows, taskRows, cacheVars, listenerVars, retryVars, consumerVars,
                   singletonVars, wireVars>>

\* the saved task with id task_id
RowOf(task_id) == CHOOSE row \in taskRows : row.id = task_id

\* the worker of a topic took the k-th send from it (the topics deliver at
\* least once), finished the step of the message and stores COMPLETED for
\* it in the message's task; a step leaves PENDING once.  The step of a
\* message that was never sent has no worker.
D_Worker(k) ==
    /\ k \in 1..Len(topics)
    /\ LET m == topics[k].message
           row == RowOf(m.task_id)
       IN /\ StatusOf(row, m.step) = PENDING
          /\ taskRows' = (taskRows \ {row})
                            \cup {WithStatus(row, m.step, COMPLETED)}
    /\ UNCHANGED <<request, reportRows, topics, cacheVars, listenerVars, retryVars, consumerVars,
                   singletonVars, wireVars>>

(* --------------------------- specification ----------------------------- *)
CacheStart ==
    /\ instance = None
    /\ cache = [transcript |-> None, video_detail |-> None]
    /\ lock = None
    /\ call = [c \in AllCallers |-> IdleCall]
    /\ storeErrors = 0
    /\ lockExpiries = 0
    /\ cachedFailed = FALSE
    /\ now = 0
    /\ expireAt = [transcript |-> 0, video_detail |-> 0]
    /\ lockExpireAt = 0
    /\ written = [transcript |-> -1, video_detail |-> -1]
    /\ ticks = 0

ListenerStart ==
    /\ tasks = [r \in Reports |-> NoTask]
    /\ nextReport = 1
    /\ kafka = {}
    /\ channel = <<>>
    /\ published = 0
    /\ listener = "init"
    /\ summarizeCalls = [r \in Reports |-> 0]
    /\ accepted = [r \in Reports |-> {}]
    /\ last = NoLast
    /\ terminal = {}

RetryStart == retry = IdleRetry

ConsumerStart ==
    /\ consumer = [l \in Listeners |-> IdleConsumer]
    /\ update_summary = [r \in Reports |-> None]

SingletonStart ==
    /\ RedisClient = [_instance |-> NoClient, _lock |-> 0]
    /\ clients = [built |-> 0, pinged |-> {}]
    /\ getter = [g \in Getters |-> IdleGetter]
    /\ closer = "idle"

DispatchStart ==
    /\ request = [i \in Requests |-> IdleRequest]
    /\ reportRows = {}
    /\ taskRows = {}
    /\ topics = <<>>

Init ==
    /\ reachable \in BOOLEAN
    /\ faulty \in BOOLEAN
    /\ CacheStart
    /\ ListenerStart
    /\ RetryStart
    /\ DispatchStart
    /\ ConsumerStart
    /\ SingletonStart
    /\ wire = IdleWire

CacheNext ==
    \/ \E c \in Callers : T_Start(c)
    \/ \E c \in Callers : T_Get(c)
    \/ \E c \in Callers : T_Lock(c)
    \/ \E c \in Callers : T_HolderFetch(c)
    \/ \E c \in Callers : T_Setex(c)
    \/ \E c \in Callers : T_Release(c)
    \/ \E c \in Callers : T_Poll(c)
    \/ \E c \in Callers : T_TimeoutFetch(c)
    \/ \E c \in Callers : T_DirectFetch(c)
    \/ \E c \in Callers : T_ExceptFetch(c)
    \/ \E c \in Callers : V_Start(c)
    \/ \E c \in Callers : V_Get(c)
    \/ \E c \in Callers : V_Fetch(c)
    \/ \E c \in Callers : V_Setex(c)
    \/ \E c \in Callers : V_DirectFetch(c)
    \/ LockExpire

ListenerNext ==
    \/ create_report
    \/ \E m \in kafka, ok \in BOOLEAN : WorkerPublish(m, ok)
    \/ \E raw \in RawMessages : Publish(raw)
    \/ \E r \in Reports, step \in Steps, st \in Status : WriteStatus(r, step, st)
    \/ L_Start
    \/ \E success \in BOOLEAN : handle_message(success)
    \/ L_StreamError

\* a server that fails no command
Reliable == ~faulty

\* a server that is up and fails no command
Sound == reachable /\ Reliable

ReliableInit == Init /\ Reliable

SoundInit == Init /\ Sound

\* the cache callers while time passes
TTLNext ==
    \/ \E c \in Callers : T_Start(c)
    \/ \E c \in Callers : T_Get(c)
    \/ \E c \in Callers : T_Lock(c)
    \/ \E c \in Callers : T_HolderFetch(c)
    \/ \E c \in Callers : T_Setex(c)
    \/ \E c \in Callers : T_Release(c)
    \/ \E c \in Callers : T_Poll(c)
    \/ \E c \in Callers : T_TimeoutFetch(c)
    \/ \E c \in Callers : T_ExceptFetch(c)
    \/ \E c \in Callers : V_Start(c)
    \/ \E c \in Callers : V_Get(c)
    \/ \E c \in Callers : V_Fetch(c)
    \/ \E c \in Callers : V_Setex(c)
    \/ \E c \in Callers : V_DirectFetch(c)
    \/ \E t \in Instants : Tick(t)

\* a stampede on transcript:<id>
StampedeNext ==
    \/ \E c \in StampedeCallers : T_Start(c)
    \/ \E c \in StampedeCallers : T_Get(c)
    \/ \E c \in StampedeCallers : T_Lock(c)
    \/ \E c \in StampedeCallers : T_HolderFetch(c)
    \/ \E c \in StampedeCallers : T_Setex(c)
    \/ \E c \in StampedeCallers : T_Release(c)
    \/ \E c \in StampedeCallers : T_Poll(c)
    \/ \E c \in StampedeCallers : T_TimeoutFetch(c)
    \/ \E c \in StampedeCallers : T_ExceptFetch(c)

RetryNext ==
    \/ \E skip \in BOOLEAN : R_Start(skip)
    \/ \E o \in {"ok"} \cup ErrorKinds : R_Call(o)
    \/ R_Sleep
    \/ \E ok \in BOOLEAN : R_SaveContext(ok)
    \/ \E ok \in BOOLEAN : R_SaveReport(ok)

DispatchNext ==
    \/ \E i \in Requests, v2 \in BOOLEAN : D_Start(i, v2)
    \/ \E i \in Requests, ok \in BOOLEAN : D_SaveReport(i, ok)
    \/ \E i \in Requests, ok \in BOOLEAN : D_SaveTask(i, ok)
    \/ \E i \in Requests, step \in Steps, ok \in BOOLEAN : D_Send(i, step, ok)

\* the requests to create_report and the workers of its topics
SettleNext ==
    \/ \E i \in Requests : D_Start(i, FALSE)
    \/ \E i \in Requests, ok \in BOOLEAN : D_SaveReport(i, ok)
    \/ \E i \in Requests, ok \in BOOLEAN : D_SaveTask(i, ok)
    \/ \E i \in Requests, step \in Steps, ok \in BOOLEAN : D_Send(i, step, ok)
    \/ \E k \in 1..Len(topics) : D_Worker(k)

\* NListeners listener processes on the channel, in the runs where nothing
\* fails: the steps are written COMPLETED, the workers report success, the
\* report and an earlier log of its video exist
ConsumersNext ==
    \/ create_report
    \/ \E r \in Reports, step \in Steps : WriteStatus(r, step, COMPLETED)
    \/ \E m \in kafka : C_Publish(m, TRUE)
    \/ \E l \in Listeners : C_Start(l)
    \/ \E l \in Listeners : C_Take(l)
    \/ \E l \in Listeners : C_FindTask(l)
    \/ \E l \in Listeners : C_Summarize(l, "row", TRUE)

\* the dispatcher, the workers and the writer of the statuses with listener
\* process 1 alone, every outcome of every step
OneListenerNext ==
    \/ create_report
    \/ \E r \in Reports, step \in Steps, st \in Status : WriteStatus(r, step, st)
    \/ \E m \in kafka, ok \in BOOLEAN : C_Publish(m, ok)
    \/ C_Start(1)
    \/ C_Take(1)
    \/ C_FindTask(1)
    \/ \E found \in {"row", "none", "raise"}, prev \in BOOLEAN :
          C_Summarize(1, found, prev)

\* the steps of caller c inside get_structured_transcript
Step(c) ==
    \/ T_Get(c) \/ T_Lock(c) \/ T_HolderFetch(c) \/ T_Setex(c) \/ T_Release(c)
    \/ T_Poll(c) \/ T_TimeoutFetch(c) \/ T_DirectFetch(c) \/ T_ExceptFetch(c)

WaitNext ==
    \/ \E c \in Callers : T_Start(c)
    \/ \E c \in Callers : T_Get(c)
    \/ \E c \in Callers : T_Lock(c)
    \/ \E c \in Callers : T_HolderFetch(c)
    \/ \E c \in Callers : T_Setex(c)
    \/ \E c \in Callers : T_Release(c)
    \/ \E c \in Callers : T_Poll(c)
    \/ \E c \in Callers : T_TimeoutFetch(c)
    \/ \E c \in Callers : T_DirectFetch(c)
    \/ \E c \in Callers : T_ExceptFetch(c)

\* the life of one start: the reports created, any publisher of the
\* channel, the listener
StartNext ==
    \/ create_report
    \/ \E raw \in RawMessages : Publish(raw)
    \/ L_Start
    \/ \E success \in BOOLEAN : handle_message(success)
    \/ L_StreamError

\* one start against a server that may be down when it starts and may fail
\* a command
SpecStart == Init /\ [][StartNext]_vars

\* one notification from RedisService.publish to the listener's filter
EnvelopeNext ==
    \/ \E user_id \in UserIds, status \in {"success", "failure"},
          step \in Steps \cup {"idea"}, report \in Reports \cup {0},
          ok \in BOOLEAN : E_Publish(user_id, status, step, report, ok)
    \/ E_Listen
    \/ E_Handle

SpecEnvelope == SoundInit /\ [][EnvelopeNext]_vars

\* concurrent calls of get_instance and one close
SingletonNext ==
    \/ \E g \in Getters : G_Enter(g)
    \/ \E g \in Getters : G_Acquired(g)
    \/ \E g \in Getters : G_Ping(g)
    \/ K_Start
    \/ K_End

\* the singleton against a server that answers the ping or does not
SpecSingleton == ReliableInit /\ [][SingletonNext]_vars

\* get_structured_transcript from its entry to the end of the holder path,
\* lines 86-133, which holds every command on the lock key, and the TTL of
\* the lock key; a caller that has not got the lock is followed no further
LockNext ==
    \/ \E c \in Callers : T_Start(c)
    \/ \E c \in Callers : T_Get(c)
    \/ \E c \in Callers : T_Lock(c)
    \/ \E c \in Callers : T_HolderFetch(c)
    \/ \E c \in Callers : T_Setex(c)
    \/ \E c \in Callers : T_Release(c)
    \/ T_LockTimeout

\* these callers, each of which may stop for ever where it is (a crashed
\* holder never releases), on a server whose clock goes on: a key with a TTL
\* does not outlive it
SpecLock == Init /\ [][LockNext]_vars /\ WF_vars(T_LockTimeout)

\* the callers of get_structured_transcript when the Redis commands, the
\* sleeps and the fetch of caller 1 terminate; every other caller, the lock
\* holder among them, may stop for ever where it is, and the lock key stays
\* for as long as its holder leaves it
SpecWait == Init /\ [][WaitNext]_vars /\ WF_vars(Step(1))

\* the callers of the two cache-aside functions and the clock, on a sound
\* server
SpecTTL == SoundInit /\ [][TTLNext]_vars

\* NStampede concurrent callers of get_structured_transcript, sound server
SpecStampede == SoundInit /\ [][StampedeNext]_vars

\* one analyze_viewer_retention
SpecRetry == SoundInit /\ [][RetryNext]_vars

\* concurrent requests to the two handlers
SpecDispatch == SoundInit /\ [][DispatchNext]_vars

\* concurrent requests to create_report, and the workers that consume what
\* the handler sent
SpecSettle == SoundInit /\ [][SettleNext]_vars

\* NListeners listener processes on the channel
SpecConsumers == SoundInit /\ [][ConsumersNext]_vars

\* one listener process on the channel
SpecOneListener == SoundInit /\ [][OneListenerNext]_vars

\* the callers of the two cache-aside functions
SpecCache == Init /\ [][CacheNext]_vars

\* the dispatcher, the workers and the completion listener
SpecListener == ReliableInit /\ [][ListenerNext]_vars

(* ------------------------ properties of the cache ---------------------- *)
RECURSIVE SumFetches(_)
SumFetches(S) ==
    IF S = {} THEN 0
    ELSE LET c == CHOOSE x \in S : TRUE IN call[c].fetches + SumFetches(S \ {c})

\* upstream fetches invoked so far by all callers together
TotalFetches == SumFetches(Callers)

\* callers between a successful SET NX of the lock key and its release
Holders == {c \in Callers : call[c].pc \in {"hfetch", "setex", "release"}}

AllDone == \A c \in Callers : call[c].pc = "done"

\* the run of the stampede property: only transcript callers, the store up and
\* never failing, no lock expiry, no waiter out of rounds, no raising fetch
StampedeRun ==
    /\ reachable
    /\ storeErrors = 0
    /\ lockExpiries = 0
    /\ \A c \in Callers :
          /\ call[c].op = "transcript"
          /\ ~call[c].timedOut
          /\ ~call[c].holderRaised

\* C1: N >= 2 concurrent callers of get_structured_transcript for one video,
\* cold cache, reachable store, no poll timeout: when all have returned, the
\* upstream fetch was invoked exactly once, under every interleaving.
C1_StampedeExactlyOnce ==
    (AllDone /\ StampedeRun) => TotalFetches = 1

\* C7: a caller whose fetch raised on the lock-holder path gets that error,
\* not a value.
C7_HolderErrorPropagated ==
    \A c \in Callers :
        (call[c].pc = "done" /\ call[c].holderRaised) => call[c].result = Raised

\* C8: the transcript key never holds a value written from a failed fetch.
C8_NothingCachedOnFailure ==
    cache.transcript # None => ~cachedFailed

\* C9: at most one caller is on the lock-holder path at any time.
C9_LockMutualExclusion ==
    Cardinality(Holders) <= 1

\* C10: a call that got no client (store unreachable) issues no Redis command,
\* invokes the upstream fetch exactly once, outside every try, and ends with
\* what that fetch produced (its value, or its own exception); the keys stay
\* untouched.
C10_Degradation ==
    /\ \A c \in Callers :
          (call[c].op # "none" /\ call[c].client = None) =>
              /\ call[c].redisOps = 0
              /\ call[c].pc \in {"direct", "vdirect", "done"}
              /\ call[c].pc = "done" =>
                    (call[c].fetches = 1 /\ call[c].result = call[c].lastFetch)
              /\ call[c].pc # "done" => call[c].fetches = 0
    /\ ~reachable =>
          (lock = None /\ cache = [transcript |-> None, video_detail |-> None])

\* both functions have degraded to a direct fetch and returned its value
C10_Witness ==
    \E c, d \in Callers :
        /\ call[c].op = "transcript" /\ call[d].op = "video"
        /\ call[c].client = None /\ call[d].client = None
        /\ call[c].pc = "done" /\ call[c].result = TranscriptList
        /\ call[d].pc = "done" /\ call[d].result = DetailDict

(* ----------------------- properties of the listener -------------------- *)
Handled == last.outcome # "none"

Summarized == last.outcome \in {"summarize", "summarize-failed"}

\* C2: when the overview and the analysis success notification of a report
\* were each delivered once (they are all that was published), in either
\* order, summarize_update_changes was invoked exactly once for the report.
C2_ExactlyOnceTrigger ==
    \A r \in Reports :
        (accepted[r] = Steps /\ published = Cardinality(Steps) /\ channel = <<>>)
            => summarizeCalls[r] = 1

\* C3: after handle_message took a success notification of a recognised step
\* for a report with a task, that step's status is COMPLETED.
C3_StepSetCompleted ==
    (Handled /\ Accepted(last.raw) /\ last.outcome \notin Exceptions) =>
        StatusOf(tasks[last.raw.message.report], last.raw.message.step) = COMPLETED

\* C4: a step status that has been COMPLETED or FAILED is not PENDING
\* afterwards, whatever the listener processes.
C4_MonotonicStatus ==
    \A p \in terminal :
        tasks[p[1]].exists /\ StatusOf(tasks[p[1]], p[2]) # PENDING

\* a notification was handled again for a report whose steps were COMPLETED
\* already, and they still are
C4_Witness ==
    \E r \in Reports :
        /\ summarizeCalls[r] = 2
        /\ <<r, "overview">> \in terminal /\ <<r, "analysis">> \in terminal
        /\ BothCompleted(tasks[r])

\* the payloads of C5: the outer envelope is not JSON, the inner message is
\* absent or not JSON, or the inner object has no status
Poison(raw) ==
    \/ raw.outer = "garbage"
    \/ /\ raw.outer = "object"
       /\ \/ raw.message.kind \in {"absent", "garbage"}
          \/ raw.message.kind = "object" /\ raw.message.status = ""

\* C5: handle_message on a poison payload writes no task, invokes no
\* reconciliation and raises nothing, so the loop of start goes on.
C5_PoisonResilience ==
    (Handled /\ Poison(last.raw)) =>
        /\ ~last.wrote
        /\ ~Summarized
        /\ ~last.raised

\* a poison payload was handled, the listener is subscribed and the next
\* message waits for it
C5_Witness ==
    /\ Handled /\ Poison(last.raw)
    /\ last.raw.message.kind = "garbage"
    /\ listener = "listening"
    /\ channel # <<>>

\* the notifications of C6: status is not success, the step is not overview
\* or analysis, or there is no report id
NotActionable(raw) ==
    /\ raw.outer = "object"
    /\ raw.message.kind = "object"
    /\ \/ raw.message.status # "success"
       \/ raw.message.step \notin {"overview", "analysis"}
       \/ raw.message.report = 0

\* C6: such a notification is dropped: the task is not loaded, no status is
\* written and reconciliation is not invoked.
C6_Dropped ==
    (Handled /\ NotActionable(last.raw)) =>
        /\ ~last.loaded
        /\ ~last.wrote
        /\ last.outcome = "ignored"

\* a failure notification was dropped although both steps of its report
\* are COMPLETED
C6_Witness ==
    /\ Handled /\ NotActionable(last.raw)
    /\ last.raw.message.status = "failure"
    /\ BothCompleted(tasks[last.raw.message.report])

(* ------------------- properties of the cache, continued ---------------- *)
\* C11: a call that met a Redis error (at the first read, the lock, the cache
\* write, the release or a poll) goes on to an upstream fetch outside every
\* try and ends with what that fetch produced: its value, or its exception.
C11_StoreErrorCaught ==
    \A c \in Callers :
        call[c].storeErr =>
            /\ call[c].pc \in {"fallback", "except", "vexcept", "release", "done"}
            /\ call[c].pc = "done" =>
                  (call[c].fetches >= 1 /\ call[c].result = call[c].lastFetch)

\* the cache write or the release failed after the holder's fetch: the call
\* fetched a second time and returned that transcript
C11_Witness ==
    \E c \in Callers :
        /\ call[c].op = "transcript" /\ call[c].storeErr
        /\ call[c].pc = "done" /\ call[c].fetches = 2
        /\ call[c].result = TranscriptList

\* the key of the function a caller runs
KeyOf(r) == IF r.op = "video" THEN "video_detail" ELSE "transcript"

\* 30 days, in seconds
ThirtyDays == 30 * 24 * 60 * 60

\* key k was written and less than its TTL (30 days, 300 s) has passed since
Unexpired(k) ==
    /\ written[k] >= 0
    /\ now < written[k] + (IF k = "transcript" THEN ThirtyDays ELSE 300)

\* caller c gets the reply of a GET of its cache key in this step
Reads(c) ==
    /\ call[c].pc \in {"get", "poll", "vget"}
    /\ call'[c].redisOps = call[c].redisOps + 1

\* C12: a read of the cache key returns the cached value iff less than the
\* TTL (30 days for transcript:<id>, 300 s for video_detail:<id>) has passed
\* since the key was written; otherwise the read is a miss.
C12_TTL ==
    [][\A c \in Callers :
          Reads(c) =>
             IF Unexpired(KeyOf(call[c]))
             THEN /\ call'[c].pc = "done"
                  /\ call'[c].fetches = call[c].fetches
                  /\ dumps(call'[c].result) = cache[KeyOf(call[c])]
             ELSE /\ call'[c].pc # "done"
                  /\ call'[c].result = None]_vars

\* the transcript was written, and a later caller read the key the moment
\* the 30 days were over: a miss, it goes for the lock
C12_Witness ==
    \E c, d \in Callers :
        /\ call[c].pc = "done" /\ call[c].fetches = 1 /\ call[c].redisOps = 4
        /\ call[d].pc = "lock" /\ call[d].redisOps = 1
        /\ written.transcript = 0 /\ now = ThirtyDays

\* C13: a call whose first read found a value returns that value, invokes
\* no upstream fetch and issues no Redis command but the read (no lock
\* command, no cache write).
C13_CacheHit ==
    \A c \in Callers :
        call[c].hit = "first" =>
            /\ call[c].pc = "done"
            /\ dumps(call[c].result) = call[c].readText
            /\ call[c].fetches = 0
            /\ call[c].redisOps = 1

\* one caller wrote the transcript, the other one's first read returned it
C13_Witness ==
    \E c, d \in Callers :
        /\ call[d].op = "transcript" /\ call[d].pc = "done" /\ call[d].fetches = 1
        /\ call[c].op = "transcript" /\ call[c].hit = "first"
        /\ call[c].result = TranscriptList

\* what C14 says of every state of a caller: the polls, the sleeps before
\* them, the poll that finds a value, the fetch when the rounds are used up
BoundedWait(r) ==
    /\ r.polls <= PollAttempts
    /\ r.slept = r.polls
    /\ r.hit = "poll" =>
          (r.pc = "done" /\ dumps(r.result) = r.readText /\ r.fetches = 0)
    /\ r.pc = "timeout" => (r.polls = PollAttempts /\ r.fetches = 0)
    /\ r.timedOut => (r.polls = PollAttempts /\ r.hit = "none")
    /\ (r.timedOut /\ r.pc = "done") => r.fetches >= 1

\* C14: a caller that did not get the lock reads the key at most
\* PollAttempts times, each read after a sleep of 1 s, returns the value of
\* the first read that finds one, and after PollAttempts misses invokes the
\* fetch itself; a call whose own commands, sleeps and fetch terminate
\* returns, whatever the lock holder does.
C14_BoundedWait ==
    /\ [](\A c \in Callers : BoundedWait(call[c]))
    /\ (call[1].pc # "idle") ~> (call[1].pc = "done")

\* a waiter used up its rounds and returned its own fetch while the holder
\* is still inside its fetch and the key is empty
C14_Witness ==
    \E c, d \in Callers :
        /\ call[d].pc = "hfetch"
        /\ cache.transcript = None
        /\ call[c].timedOut /\ call[c].polls = PollAttempts
        /\ call[c].pc = "done" /\ call[c].fetches = 1
        /\ call[c].result = TranscriptList

\* upstream fetches invoked so far by the callers of the stampede
StampedeFetches == SumFetches(StampedeCallers)

\* the callers that got the lock
Acquirers ==
    {c \in StampedeCallers :
        call[c].pending # "none" \/ call[c].pc \in {"hfetch", "setex", "release"}}

\* all callers have returned, one of them held the lock, no fetch raised, and
\* a waiter ran out of rounds before the holder wrote the key
TimeoutRun ==
    /\ \A c \in StampedeCallers :
          /\ call[c].pc = "done"
          /\ call[c].lastFetch # Raised
          /\ call[c].fetches <= 1
    /\ Cardinality(Acquirers) = 1
    /\ \E c \in StampedeCallers : call[c].timedOut

\* C15: N concurrent cold-cache callers, the lock holder does not write the
\* key within the waiters' rounds: the upstream fetch is invoked at most
\* twice in all.
C15_AtMostOneExtra ==
    TimeoutRun => StampedeFetches <= 2

(* --------------- properties of analyze_viewer_retention ---------------- *)
\* s is the beginning of t
IsPrefix(s, t) ==
    Len(s) <= Len(t) /\ \A k \in 1..Len(s) : s[k] = t[k]

\* C16: analyze_leave is invoked at most 3 times; attempt 2 comes after a
\* wait of 5 s and attempt 3 after a further wait of 10 s, and there is no
\* other wait; after two retryable failures and a third attempt that
\* succeeds, the result is the third attempt's value.
C16_RetryPolicy ==
    /\ retry.calls <= 3
    /\ IsPrefix(retry.waits, <<5, 10>>)
    /\ Len(retry.waits) <= Len(retry.errors)
    /\ retry.calls >= 1 => Len(retry.waits) >= retry.calls - 1
    /\ (retry.calls = 3 /\ Len(retry.errors) = 2) =>
          /\ retry.leave_result = LeaveValue(3)
          /\ retry.waits = <<5, 10>>
          /\ retry.outcome = "True" => retry.report = LeaveValue(3)

\* two network errors, then the third attempt's value was saved
C16_Witness ==
    /\ retry.calls = 3
    /\ retry.errors = <<"ConnectTimeout", "ReadTimeout">>
    /\ retry.waits = <<5, 10>>
    /\ retry.outcome = "True"
    /\ retry.report = LeaveValue(3)

\* C17: after three retryable failures no error of analyze_leave leaves the
\* function: the placeholder is the result, it goes the way of a successful
\* result (vector store unless skipped, then the report row) and the
\* function returns True; the waits were the two before attempts 2 and 3.
C17_RetryExhaustion ==
    (Len(retry.errors) = 3 /\ \A k \in 1..3 : retry.errors[k] \in Network) =>
        /\ retry.calls = 3
        /\ retry.leave_result = Placeholder
        /\ retry.waits = <<5, 10>>
        /\ retry.pc \in {"save_context", "save_report", "done"}
        /\ retry.pc = "save_context" => ~retry.skip_vector_save
        /\ retry.outcome \in {"none", "True", "StorageError"}
        /\ retry.outcome = "True" =>
              /\ retry.report = Placeholder
              /\ ~retry.skip_vector_save => retry.vector = Placeholder

\* three network errors: the placeholder is in both stores, True returned
C17_Witness ==
    /\ retry.errors = <<"ConnectTimeout", "ReadTimeout", "ConnectionError">>
    /\ retry.outcome = "True"
    /\ retry.report = Placeholder
    /\ retry.vector = Placeholder

\* the k-th invocation's exception left the function at once: no further
\* invocation, no wait after it, nothing assigned or saved by then
Propagated(k) ==
    /\ k = Len(retry.errors)
    /\ retry.calls = k
    /\ retry.pc = "done"
    /\ retry.outcome = retry.errors[k]
    /\ Len(retry.waits) = k - 1
    /\ retry.leave_result = None
    /\ retry.vector = None
    /\ retry.report = None

\* C18: an AttributeError, TypeError or KeyError of analyze_leave, on any
\* attempt, leaves analyze_viewer_retention at once: no further attempt, no
\* wait, no placeholder, nothing saved.
C18_FatalInput ==
    \A k \in 1..Len(retry.errors) :
        retry.errors[k] \in {"AttributeError", "TypeError", "KeyError"} =>
            Propagated(k)

\* a KeyError on the second attempt
C18_Witness ==
    /\ retry.errors = <<"ReadTimeout", "KeyError">>
    /\ retry.outcome = "KeyError"

\* C19: an error that is neither AttributeError, TypeError or KeyError nor
\* ConnectTimeout, ReadTimeout or ConnectionError leaves the function the
\* first time it occurs, with no retry and no wait.
C19_OtherErrors ==
    \A k \in 1..Len(retry.errors) :
        retry.errors[k] \notin {"AttributeError", "TypeError", "KeyError",
                                "ConnectTimeout", "ReadTimeout", "ConnectionError"} =>
            Propagated(k)

\* C19, amended: the same for an error that is none of those six nor a
\* TimeoutError, which is retried like the three network errors.
C19_OtherErrorsAmended ==
    \A k \in 1..Len(retry.errors) :
        retry.errors[k] \notin {"AttributeError", "TypeError", "KeyError",
                                "ConnectTimeout", "ReadTimeout", "ConnectionError",
                                "TimeoutError"} =>
            Propagated(k)

\* a ValueError on the second attempt, after a TimeoutError was retried
C19_Witness ==
    /\ retry.errors = <<"TimeoutError", "ValueError">>
    /\ retry.waits = <<5>>
    /\ retry.outcome = "ValueError"

(* ---------------------- properties of the dispatcher ------------------ *)
\* the positions in the order of sends of the message of step `step` that
\* carries task id t
Sends(t, step) ==
    {k \in 1..Len(topics) :
        topics[k].message.task_id = t /\ topics[k].message.step = step}

\* C20: every message that was sent names a report and a task that are
\* saved, the task with overview_status and analysis_status PENDING; there
\* is one message per task and step at most; an analysis message comes
\* after the overview message with the same task id, report id and token;
\* a handler that has returned sent exactly its two messages, each to the
\* topic of its step.
C20_DispatchOrdering ==
    /\ \A k \in 1..Len(topics) :
          LET m == topics[k].message
          IN /\ m.report_id \in reportRows
             /\ \E row \in taskRows :
                   /\ row.id = m.task_id /\ row.report_id = m.report_id
                   /\ row.overview_status = PENDING
                   /\ row.analysis_status = PENDING
             /\ Cardinality(Sends(m.task_id, m.step)) = 1
             /\ m.step = "analysis" =>
                   \E j \in 1..(k - 1) :
                       topics[j].message = [m EXCEPT !.step = "overview"]
    /\ \A i \in Requests :
          request[i].pc = "done" =>
              \A step \in Steps :
                  /\ Cardinality(Sends(request[i].task_id, step)) = 1
                  /\ \A k \in Sends(request[i].task_id, step) :
                        /\ topics[k].message.report_id = request[i].report_id
                        /\ topics[k].message.google_access_token = Token(i)
                        /\ topics[k].topic =
                              IF request[i].v2
                              THEN (IF step = "overview" THEN "overview-topic-v2"
                                                         ELSE "analysis-topic-v2")
                              ELSE (IF step = "overview" THEN "overview-topic"
                                                         ELSE "analysis-topic")

\* two requests, one to each handler, have returned; their sends alternate
\* and the first one's task id differs from its report id
C20_Witness ==
    /\ \A i \in {1, 2} : request[i].pc = "done"
    /\ request[1].v2 /\ ~request[2].v2
    /\ request[1].task_id # request[1].report_id
    /\ Len(topics) = 4
    /\ topics[1].message.task_id # topics[2].message.task_id

\* the steps of the task of request q for which no message was sent
Unsent(q) == {s \in Steps : Sends(q.task_id, s) = {}}

\* C21: when the report and the task of a request are saved and one of its
\* two sends raised, the handler is left with no response, the report and
\* the task stay saved, no message of a step that was not sent appears, and
\* the status of such a step is PENDING in every later state: the two steps
\* are never both COMPLETED, which is what the listener requires before it
\* invokes the reconciliation.
C21_PartialPublishFailure ==
    \A i \in Requests :
        (request[i].pc = "failed" /\ request[i].task_id # 0) =>
            /\ request[i].response = 0
            /\ Unsent(request[i]) # {}
            /\ request[i].report_id \in reportRows
            /\ \E row \in taskRows :
                  /\ row.id = request[i].task_id
                  /\ row.report_id = request[i].report_id
                  /\ \A s \in Unsent(request[i]) :
                        (IF s = "overview" THEN row.overview_status
                                           ELSE row.analysis_status) = "pending"
                  /\ ~(row.overview_status = "completed"
                          /\ row.analysis_status = "completed")

\* the overview message was sent and its worker stored COMPLETED; the send
\* of the analysis message raised, and the analysis step is PENDING
C21_Witness ==
    \E i \in Requests :
        /\ request[i].pc = "failed"
        /\ Sends(request[i].task_id, "overview") # {}
        /\ Sends(request[i].task_id, "analysis") = {}
        /\ \E row \in taskRows :
              /\ row.id = request[i].task_id
              /\ row.overview_status = COMPLETED
              /\ row.analysis_status = PENDING

(* ------------------ properties of the listener processes --------------- *)
\* C22: an exception raised inside summarize_update_changes is caught
\* there and the call returns False; handle_message returns to the loop of
\* start, which takes the next message, and the notification is in the
\* subscription no more: every message a listener got was taken once or
\* waits to be taken.
C22_ReconciliationFailure ==
    \A l \in Listeners :
        /\ consumer[l].ret.exc # "none" =>
              /\ consumer[l].ret.result = "False"
              /\ consumer[l].pc \in {"listen", "find_task", "summarize"}
        /\ consumer[l].heard = consumer[l].taken + Len(consumer[l].queue)

\* a reconciliation ended with an exception, and the listener has taken the
\* next notification and waits for its task
C22_Witness ==
    /\ consumer[1].ret.exc = "AttributeError"
    /\ consumer[1].ret.result = "False"
    /\ consumer[1].pc = "find_task"
    /\ consumer[1].taken = 2

\* C23: summarize_update_changes returns False and saves nothing when the
\* report does not exist; returns True and saves nothing when the report
\* exists and the video has no earlier log; saves the update summary on the
\* report and returns True when the video has one.
C23_ReconciliationOutcome ==
    \A l \in Listeners :
        consumer[l].ret.result # "none" =>
            /\ consumer[l].found = "none" =>
                  (consumer[l].ret.result = "False" /\ ~consumer[l].ret.saved)
            /\ (consumer[l].found = "row" /\ ~consumer[l].prev) =>
                  (consumer[l].ret.result = "True" /\ ~consumer[l].ret.saved)
            /\ (consumer[l].found = "row" /\ consumer[l].prev) =>
                  (consumer[l].ret.result = "True" /\ consumer[l].ret.saved)

\* C24: whenever a listener has invoked summarize_update_changes for the
\* notification it handles, the task it read at line 69 for it has
\* overview_status and analysis_status COMPLETED.
C24_OnlyWhenBothCompleted ==
    \A l \in Listeners :
        (consumer[l].triggered \/ consumer[l].pc = "summarize") =>
            /\ consumer[l].task.exists
            /\ consumer[l].task.overview_status = "completed"
            /\ consumer[l].task.analysis_status = "completed"

\* the first notification the listener took invoked nothing; the second one
\* invoked the reconciliation
C24_Witness ==
    /\ consumer[1].taken = 2
    /\ consumer[1].pc = "summarize"
    /\ consumer[1].invoked[consumer[1].payload.report] = 1

\* C25: once a listener is past line 71 for a success notification of the
\* overview or the analysis step whose report had both steps COMPLETED when
\* it was handled, it has invoked summarize_update_changes for it, whatever
\* it invoked before.
C25_NoDeduplication ==
    \A l \in Listeners :
        ( /\ consumer[l].taken > 0
          /\ consumer[l].pc \in {"listen", "summarize"}
          /\ consumer[l].payload.kind = "object"
          /\ consumer[l].payload.status = "success"
          /\ consumer[l].payload.step \in {"overview", "analysis"}
          /\ consumer[l].payload.report # 0
          /\ consumer[l].both ) => consumer[l].triggered

\* one listener has invoked the reconciliation of a report a second time
C25_Witness ==
    \E r \in Reports :
        /\ consumer[1].invoked[r] = 2
        /\ consumer[1].pc = "summarize"
        /\ \A l \in Listeners \ {1} : consumer[l].pc = "init"

\* C26: a listener has at most one handle_message begun and not returned:
\* none while its loop waits for a message, one between the message and the
\* return, the reconciliation included.
C26_OneAtATime ==
    \A l \in Listeners :
        /\ consumer[l].active <= 1
        /\ consumer[l].pc \in {"init", "listen", "crashed"} => consumer[l].active = 0
        /\ consumer[l].pc \in {"find_task", "summarize"} => consumer[l].active = 1

\* the reconciliation of one notification runs while the next notification
\* waits in the subscription
C26_Witness ==
    /\ consumer[1].pc = "summarize"
    /\ consumer[1].active = 1
    /\ consumer[1].queue # <<>>

\* C27: every listener subscribed to the channel gets every notification
\* published since it subscribed, and a listener past line 71 for a success
\* notification of a report with both steps COMPLETED has invoked
\* summarize_update_changes also when another listener has invoked it for
\* the same report.
C27_NoIdempotencyGuard ==
    \A l \in Listeners :
        /\ consumer[l].pc \notin {"init", "crashed"} =>
              consumer[l].heard = published - consumer[l].joined
        /\ \A k \in Listeners \ {l} :
              ( /\ consumer[l].taken > 0
                /\ consumer[l].pc \in {"listen", "summarize"}
                /\ consumer[l].payload.status = "success"
                /\ consumer[l].both
                /\ consumer[k].invoked[consumer[l].payload.report] > 0 )
                  => consumer[l].triggered

\* two listeners got both notifications of a report, and each of them has
\* invoked its reconciliation
C27_Witness ==
    \E r \in Reports :
        /\ \A l \in {1, 2} : consumer[l].heard = 2 /\ consumer[l].invoked[r] > 0
        /\ published = 2

(* --------------------- properties of the lock key ---------------------- *)
\* C28: there is no state in which the lock key is absent, the fetch of a
\* lock holder has succeeded and the transcript key is absent, unless a
\* Redis command of that holder raised.
C28_WriteBeforeRelease ==
    \A c \in Callers :
        ( /\ call[c].op = "transcript"
          /\ call[c].structured # None
          /\ ~call[c].storeErr
          /\ lock = None ) => cache.transcript # None

\* C29: the DEL of a holder that leaves its finally without a Redis error
\* leaves no lock key, after a fetch or a cache write that raised as after
\* the return; a lock key that is there runs out within 30 s of the clock;
\* and whenever the lock key is there, it is gone later, also when its
\* holder never takes another step.
C29_LockEventuallyFree ==
    /\ [][\A c \in Callers :
            (call[c].pc = "release" /\ call'[c].pc # "release"
               /\ storeErrors' = storeErrors) => lock' = None]_vars
    /\ [](lock # None => (now < lockExpireAt /\ lockExpireAt <= now + 30))
    /\ (lock # None) ~> (lock = None)

\* the holder has stopped inside its fetch, the 30 s are over and the lock
\* key is gone; the other caller waits
C29_Witness ==
    \E c, d \in Callers :
        /\ call[c].pc = "hfetch" /\ call[c].deadline = 30
        /\ now = 30 /\ lock = None
        /\ call[d].pc = "poll"

\* C30: the DEL of a holder whose lock key has run out and has been set
\* again by another caller leaves that caller's lock key where it is.
C30_ReleaseOwnLockOnly ==
    [][\A c \in Callers :
          (call[c].pc = "release" /\ call'[c].pc # "release"
             /\ storeErrors' = storeErrors
             /\ lock # None /\ lockExpireAt # call[c].deadline) =>
                lock' = lock]_vars

(* ------------- properties of both cache-aside functions ---------------- *)
\* C31: concurrent callers of get_video_details for one video id, cold
\* cache, the server up and failing no command, no key run out, no caller
\* fetching twice: when all have returned, the metadata fetch was invoked
\* at most once by all of them together.
C31_VideoSingleFetcher ==
    ( /\ reachable /\ storeErrors = 0 /\ ticks = 0
      /\ \A c \in Callers :
            /\ call[c].op = "video"
            /\ call[c].pc = "done"
            /\ call[c].fetches <= 1 ) => TotalFetches <= 1

\* C32: one call of get_structured_transcript or of get_video_details
\* invokes the upstream fetch at most once.
C32_AtMostOneFetchPerCall ==
    \A c \in Callers : call[c].fetches <= 1

\* the places of a call from which the fetch is invoked outside the
\* cache-aside path: no client, a Redis command raised, the rounds used up
FallbackPlaces == {"direct", "fallback", "timeout", "except", "vdirect", "vexcept"}

\* C33: a fetch invoked from a fallback place writes neither a cache key nor
\* the lock key nor a TTL, and the call ends there with what this fetch
\* produced (or, from the waiting loop's fetch raising, goes to the
\* `except Exception` of line 151).
C33_FallbackLeavesCache ==
    [][\A c \in Callers :
          (call[c].pc \in FallbackPlaces /\ call'[c].fetches = call[c].fetches + 1) =>
              /\ cache' = cache /\ lock' = lock
              /\ expireAt' = expireAt /\ lockExpireAt' = lockExpireAt
              /\ call'[c].redisOps = call[c].redisOps
              /\ \/ call'[c].pc = "done" /\ call'[c].result = call'[c].lastFetch
                 \/ /\ call[c].pc = "timeout" /\ call'[c].lastFetch = Raised
                    /\ call'[c].pc = "except"]_vars

\* a waiter out of rounds has returned the transcript it fetched itself,
\* while the holder is still fetching: nothing is at the transcript key and
\* the lock key is the holder's
C33_Witness ==
    \E c, d \in Callers :
        /\ call[c].pc = "done" /\ call[c].timedOut
        /\ call[c].result = TranscriptList
        /\ call[d].pc = "hfetch"
        /\ cache.transcript = None /\ lock # None

(* ---------------------- properties of RedisClient ---------------------- *)
\* the calls that have returned a client
Handed == {g \in Getters : getter[g].pc = "done" /\ getter[g].ret # NoClient}

\* C34: as long as close() has not been called, at most one client has been
\* constructed and all calls that returned a client returned the same one.
C34_SingleSharedHandle ==
    closer = "idle" =>
        /\ clients.built <= 1
        /\ \A g, h \in Handed : getter[g].ret = getter[h].ret

\* C35: a call returns a client only after the ping of that client has
\* succeeded, so every call returns None when the server is unreachable;
\* and while no initialisation and no close is under way, _instance holds
\* None or a client whose ping succeeded.
C35_PingedHandleOnly ==
    /\ \A g \in Handed : getter[g].ret \in clients.pinged
    /\ (~reachable) => Handed = {}
    /\ ((\A g \in Getters : getter[g].pc # "ping") /\ closer # "closing") =>
           RedisClient._instance \in clients.pinged \cup {NoClient}

(* ------------------ properties of the task row's owners ---------------- *)
\* the three status columns of the task of report r
Statuses(tbl, r) ==
    <<tbl[r].overview_status, tbl[r].analysis_status, tbl[r].idea_status>>

Handles ==
    /\ listener = "listening" /\ channel # <<>>
    /\ channel' = Tail(channel)
    /\ (listener' = "listening" \/ last'.raised)

\* C38: handle_message on a success notification that passes the filter,
\* for a report that has no task, invokes no reconciliation and changes
\* neither the task table nor any report; the AttributeError of line 71 is
\* caught at line 84 and the listener goes on listening.
C38_NoTaskRecord ==
    [][(Handles /\ Accepted(Head(channel))
          /\ ~find_by_report(tasks, Head(channel).message.report).exists) =>
             /\ last'.outcome = "AttributeError" /\ ~last'.raised
             /\ listener' = "listening"
             /\ summarizeCalls' = summarizeCalls
             /\ tasks' = tasks /\ accepted' = accepted
             /\ update_summary' = update_summary
             /\ UNCHANGED <<nextReport, kafka, dispatchVars>>]_vars

\* the listener has handled a success notification of a report without a
\* task, and the next message is there for it
C38_Witness ==
    /\ last.loaded /\ last.outcome = "AttributeError"
    /\ last.raw.message.status = "success"
    /\ ~tasks[last.raw.message.report].exists
    /\ listener = "listening" /\ channel # <<>>

\* start has ended: with the AttributeError of line 23, by returning after
\* the finally, or with the exception of the unsubscribe
Ended == {"crashed", "stopped", "aborted"}

\* with no client start ends before it subscribes, and nothing is ever
\* published to it or handled by it
NeverStarted ==
    /\ [](~reachable => listener \in {"init", "crashed"})
    /\ [](listener = "crashed" =>
             (instance = None /\ channel = <<>> /\ published = 0
                /\ last = NoLast /\ summarizeCalls = [r \in Reports |-> 0]))

\* a start that has ended stays ended: no message reaches it, none is handled
EndedForGood ==
    [][(listener \in Ended) =>
          (listener' = listener /\ channel' = <<>> /\ last' = last
             /\ summarizeCalls' = summarizeCalls /\ accepted' = accepted)]_vars

\* C39: with no client, start ends with an error before it subscribes and
\* no notification is ever handled; a listener that leaves the loop has
\* unsubscribed and closed its subscription, and it has left for good.
C39_ListenerEnds ==
    /\ NeverStarted
    /\ EndedForGood
    /\ [][(listener = "listening" /\ listener' # "listening") =>
              (listener' = "stopped" /\ channel' = <<>>)]_vars

\* C39, amended: as C39, but a listener that leaves the loop has
\* unsubscribed and closed its subscription only if the unsubscribe did not
\* raise; if it raised, a command of the server had failed, nothing is
\* closed and start ends with that exception.
C39_ListenerEndsAmended ==
    /\ NeverStarted
    /\ EndedForGood
    /\ [][(listener = "listening" /\ listener' # "listening") =>
              (listener' \in {"stopped", "aborted"}
                 /\ (listener' = "aborted" => faulty)
                 /\ channel' = <<>>)]_vars

\* the listener had handled a notification when its stream raised; it has
\* unsubscribed, closed and returned
C39_Witness ==
    /\ listener = "stopped"
    /\ last.outcome # "none"
    /\ published > 0

====
